---- MODULE Spec2Model ----
(***************************************************************************)
(* Model of the llmtoolbox registry and dispatch engine.                   *)
(*                                                                         *)
(* The repository holds two ToolBox implementations:                       *)
(*   - src/src/toolbox.rs : ToolBox / ToolBoxLocal (identical bodies),     *)
(*     envelope key "function_name", registration and dispatch by a scan   *)
(*     over function_names(), parameters deserialized by the tool;         *)
(*   - src/src/lib.rs     : ToolBox with a name -> validator map, envelope *)
(*     key "name", parameters validated against a JSON Schema at parse.    *)
(* The variable impl records which of the two was constructed.             *)
(***************************************************************************)
EXTENDS Integers, Sequences, FiniteSets, TLC

VARIABLES impl, all_tools, schema, tool_name_to_validator, last, calls

vars == <<impl, all_tools, schema, tool_name_to_validator, last, calls>>

\* Bound on the number of registered tools (Vec::push is otherwise unbounded):
\* a registration that would exceed it is not attempted.
MaxTools == 2

\* Bound on the number of calls in flight at once on one ToolBox.
MaxCalls == 2

\* u8::MAX, the largest value serde_json::from_value::<u8> accepts.
U8Max == 255

(***************************************************************************)
(* serde_json::Value                                                       *)
(***************************************************************************)
JNull == [kind |-> "null"]
JBool(b) == [kind |-> "bool", b |-> b]
JNum(n) == [kind |-> "number", n |-> n]
JStr(s) == [kind |-> "string", s |-> s]
JArr(items) == [kind |-> "array", items |-> items]
JObj(m) == [kind |-> "object", map |-> m]

\* serde_json::Map::new()
EmptyMap == [k \in {} |-> JNull]

\* Value indexing (input[key]) in place of Value::get: a missing field, or
\* a field of a value that is not an object, reads as Null.
get_or_null(v, key) ==
  IF v.kind = "object" /\ key \in DOMAIN v.map THEN {v.map[key]} ELSE {JNull}

\* Value::get(key): Some(v) is {v}, None is {}.  A value that is not an
\* object has no fields.
get(v, key) ==
  IF v.kind = "object" /\ key \in DOMAIN v.map THEN {v.map[key]} ELSE {}

\* Value::as_str()
as_str(v) == IF v.kind = "string" THEN {v.s} ELSE {}

\* Value::is_object()
is_object(v) == v.kind = "object"

\* Map::remove(key): the map without the key.
remove(m, key) == [k \in DOMAIN m \ {key} |-> m[k]]

\* Map::extend(other): every entry of other is inserted; an entry of other
\* replaces the entry of m that has the same key.
extend(m, other) ==
  [k \in DOMAIN m \cup DOMAIN other |-> IF k \in DOMAIN other THEN other[k] ELSE m[k]]

\* The elements of a sequence.
Range(s) == {s[i] : i \in 1..Len(s)}

(***************************************************************************)
(* JSON text.  A text is the sequence of its lexical tokens: punctuation,  *)
(* the literals, a string, a number, or a run of characters that is no     *)
(* JSON token.                                                             *)
(***************************************************************************)
Tok(t) == [t |-> t]
TStr(s) == [t |-> "str", s |-> s]
TNum(n) == [t |-> "num", n |-> n]

\* The keys of the objects, in the order of serde_json's Map (a BTreeMap:
\* keys in ascending order).
SortedKeys == <<"function_name", "greeting", "id", "n", "name", "parameters">>

\* The text of a sequence of texts joined by commas.
RECURSIVE join(_)
join(texts) ==
  IF texts = <<>> THEN <<>>
  ELSE IF Len(texts) = 1 THEN texts[1]
  ELSE texts[1] \o <<Tok(",")>> \o join(Tail(texts))

\* serde_json's Display / to_string of a Value: the compact text.
RECURSIVE to_string(_)
to_string(v) ==
  CASE v.kind = "null" -> <<Tok("null")>>
    [] v.kind = "bool" -> <<Tok(IF v.b THEN "true" ELSE "false")>>
    [] v.kind = "number" -> <<TNum(v.n)>>
    [] v.kind = "string" -> <<TStr(v.s)>>
    [] v.kind = "array" ->
         <<Tok("[")>> \o join([i \in 1..Len(v.items) |-> to_string(v.items[i])])
           \o <<Tok("]")>>
    [] v.kind = "object" ->
         LET keys == SelectSeq(SortedKeys, LAMBDA k : k \in DOMAIN v.map) IN
         <<Tok("{")>>
           \o join([i \in 1..Len(keys) |->
                      <<TStr(keys[i]), Tok(":")>> \o to_string(v.map[keys[i]])])
           \o <<Tok("}")>>

\* serde_json::Error, with the position of the offending token.
SyntaxError(at) == [ok |-> FALSE, at |-> at]
Parsed(value, next) == [ok |-> TRUE, value |-> value, next |-> next]

\* The recursive-descent parser of serde_json: the value that starts at
\* token i, with the position after it.  A repeated key keeps its last value.
RECURSIVE parse_value(_, _), parse_items(_, _, _), parse_members(_, _, _)
parse_value(text, i) ==
  IF i > Len(text) THEN SyntaxError(i)
  ELSE
    CASE text[i].t = "null" -> Parsed(JNull, i + 1)
      [] text[i].t = "true" -> Parsed(JBool(TRUE), i + 1)
      [] text[i].t = "false" -> Parsed(JBool(FALSE), i + 1)
      [] text[i].t = "num" -> Parsed(JNum(text[i].n), i + 1)
      [] text[i].t = "str" -> Parsed(JStr(text[i].s), i + 1)
      [] text[i].t = "[" ->
           IF i + 1 <= Len(text) /\ text[i + 1].t = "]"
           THEN Parsed(JArr(<<>>), i + 2)
           ELSE parse_items(text, i + 1, <<>>)
      [] text[i].t = "{" ->
           IF i + 1 <= Len(text) /\ text[i + 1].t = "}"
           THEN Parsed(JObj(EmptyMap), i + 2)
           ELSE parse_members(text, i + 1, EmptyMap)
      [] OTHER -> SyntaxError(i)

parse_items(text, i, items) ==
  LET r == parse_value(text, i) IN
  IF ~r.ok THEN r
  ELSE IF r.next > Len(text) THEN SyntaxError(r.next)
  ELSE IF text[r.next].t = "]" THEN Parsed(JArr(Append(items, r.value)), r.next + 1)
  ELSE IF text[r.next].t = "," THEN parse_items(text, r.next + 1, Append(items, r.value))
  ELSE SyntaxError(r.next)

parse_members(text, i, m) ==
  IF i > Len(text) \/ text[i].t # "str" THEN SyntaxError(i)
  ELSE IF i + 1 > Len(text) \/ text[i + 1].t # ":" THEN SyntaxError(i + 1)
  ELSE
    LET r == parse_value(text, i + 2) IN
    IF ~r.ok THEN r
    ELSE
      LET m2 == extend(m, text[i].s :> r.value) IN
      IF r.next > Len(text) THEN SyntaxError(r.next)
      ELSE IF text[r.next].t = "}" THEN Parsed(JObj(m2), r.next + 1)
      ELSE IF text[r.next].t = "," THEN parse_members(text, r.next + 1, m2)
      ELSE SyntaxError(r.next)

\* serde_json::from_str taking the first value of the text and ignoring
\* what follows it.
from_str_prefix(text) ==
  LET r == parse_value(text, 1) IN
  IF r.ok THEN [tag |-> "Ok", value |-> r.value]
  ELSE [tag |-> "Err", error |-> [kind |-> "serde_json::Error", at |-> r.at]]

\* serde_json::from_str::<Value>(text): the text is one value and nothing
\* else.
from_str(text) ==
  LET r == parse_value(text, 1) IN
  IF ~r.ok THEN [tag |-> "Err", error |-> [kind |-> "serde_json::Error", at |-> r.at]]
  ELSE IF r.next # Len(text) + 1
  THEN [tag |-> "Err", error |-> [kind |-> "serde_json::Error", at |-> r.next]]
  ELSE [tag |-> "Ok", value |-> r.value]

(***************************************************************************)
(* The tools.  MyTool is the hand-written tool of tests/mod.rs; Counter    *)
(* and Talker have the shape the #[tool] macro generates; Lookup is a      *)
(* hand-written tool whose schema map is keyed by its function name.       *)
(***************************************************************************)
ToolIds == {"MyTool", "Counter", "Talker", "Lookup"}

\* Tool::function_names()
function_names(t) ==
  CASE t = "MyTool" -> <<"greet", "goodbye">>
    [] t = "Counter" -> <<"count">>
    [] t = "Talker" -> <<"goodbye", "talk">>
    [] t = "Lookup" -> <<"lookup">>
    [] t = "Ghost" -> <<"haunt">>

FunctionNames == UNION {Range(function_names(t)) : t \in ToolIds}

\* The declared parameters of each tool function (FunctionDefintion.parameters):
\* greet(&self, greeting: &str), goodbye(&self), count(&self, n: u8),
\* talk(&self, topic: String), lookup(&self, key: String).
parameters_of(f) ==
  CASE f = "greet" -> <<[name |-> "greeting", param_type |-> "str"]>>
    [] f = "goodbye" -> <<>>
    [] f = "count" -> <<[name |-> "n", param_type |-> "u8"]>>
    [] f = "talk" -> <<[name |-> "topic", param_type |-> "String"]>>
    [] f = "lookup" -> <<[name |-> "key", param_type |-> "String"]>>
    [] f \in {"haunt", "spook"} -> <<>>

\* rust_type_to_known_json_schema_type
rust_type_to_known_json_schema_type(ty) ==
  CASE ty \in {"String", "str"} -> "string"
    [] ty \in {"u8"} -> "integer"

\* create_function_parameter_json_schema: every declared parameter is a
\* required property with the JSON Schema type of its Rust type.
create_function_parameter_json_schema(f) ==
  LET ps == parameters_of(f) IN
  [required |-> [i \in 1..Len(ps) |-> ps[i].name],
   properties |-> [p \in {ps[i].name : i \in 1..Len(ps)} |->
      LET i == CHOOSE j \in 1..Len(ps) : ps[j].name = p
      IN  rust_type_to_known_json_schema_type(ps[i].param_type)]]

\* create_tool_json_schema: {"$schema": ..., "oneOf": [one entry per function]},
\* each entry fixing the function name and giving its parameter schema.
create_tool_json_schema(t) ==
  LET fs == function_names(t) IN
  [k \in {"$schema", "oneOf"} |->
     IF k = "$schema" THEN "http://json-schema.org/draft-07/schema#"
     ELSE [i \in 1..Len(fs) |->
             [function_name |-> fs[i],
              parameters |-> create_function_parameter_json_schema(fs[i])]]]

\* Tool::schema().  Lookup keys its schema map by function name.
tool_schema(t) ==
  IF t = "Lookup"
  THEN [k \in {"lookup"} |-> create_function_parameter_json_schema(k)]
  ELSE create_tool_json_schema(t)

\* Tool::function_name_to_validator() of src/src/lib.rs: "the name of the
\* function and the call validator".  The tools of ToolIds keep that
\* contract: they have exactly one validator for each of their function
\* names.  The trait does not tie this method to function_names: Ghost is a
\* hand-written tool whose validator is for a name that is not its function.
function_name_to_validator(t) ==
  IF t = "Ghost"
  THEN [f \in {"spook"} |-> create_function_parameter_json_schema(f)]
  ELSE [f \in Range(function_names(t)) |-> create_function_parameter_json_schema(f)]

(***************************************************************************)
(* Registration                                                            *)
(***************************************************************************)
Ok == [tag |-> "Ok"]
ErrTool(t) == [tag |-> "Err", tool |-> t]

\* add_tool putting the new tool at the head of the list.
add_tool_prepends(tools, sch, tool) ==
  IF \E i \in 1..Len(tools) :
       Range(function_names(tools[i])) \cap Range(function_names(tool)) # {}
  THEN [ret |-> ErrTool(tool), all_tools |-> tools, schema |-> sch]
  ELSE [ret |-> Ok,
        all_tools |-> <<tool>> \o tools,
        schema |-> extend(sch, tool_schema(tool))]

\* add_tool putting the new tool in the place of the tools it collides
\* with, in place of rejecting it.
add_tool_evicts(tools, sch, tool) ==
  LET kept == SelectSeq(tools, LAMBDA t :
                Range(function_names(t)) \cap Range(function_names(tool)) = {})
  IN [ret |-> Ok,
      all_tools |-> Append(kept, tool),
      schema |-> extend(sch, tool_schema(tool))]

\* add_tool comparing only the first function name of each registered tool.
add_tool_first_name_only(tools, sch, tool) ==
  IF \E i \in 1..Len(tools) :
       \E k \in 1..Len(function_names(tool)) :
         function_names(tools[i])[1] = function_names(tool)[k]
  THEN [ret |-> ErrTool(tool), all_tools |-> tools, schema |-> sch]
  ELSE [ret |-> Ok,
        all_tools |-> Append(tools, tool),
        schema |-> extend(sch, tool_schema(tool))]

\* add_tool merging the schema before the collision check.
add_tool_extend_before_check(tools, sch, tool) ==
  IF \E i \in 1..Len(tools) :
       \E j \in 1..Len(function_names(tools[i])) :
         \E k \in 1..Len(function_names(tool)) :
           function_names(tools[i])[j] = function_names(tool)[k]
  THEN [ret |-> ErrTool(tool), all_tools |-> tools,
        schema |-> extend(sch, tool_schema(tool))]
  ELSE [ret |-> Ok,
        all_tools |-> Append(tools, tool),
        schema |-> extend(sch, tool_schema(tool))]

\* add_tool storing the new tool's schema in place of the merged one.
add_tool_replace_schema(tools, sch, tool) ==
  IF \E i \in 1..Len(tools) :
       \E j \in 1..Len(function_names(tools[i])) :
         \E k \in 1..Len(function_names(tool)) :
           function_names(tools[i])[j] = function_names(tool)[k]
  THEN [ret |-> ErrTool(tool), all_tools |-> tools, schema |-> sch]
  ELSE [ret |-> Ok,
        all_tools |-> Append(tools, tool),
        schema |-> tool_schema(tool)]

\* ToolBox::add_tool / ToolBoxLocal::add_tool of src/src/toolbox.rs.
add_tool(tools, sch, tool) ==
  IF \E i \in 1..Len(tools) :
       \E j \in 1..Len(function_names(tools[i])) :
         \E k \in 1..Len(function_names(tool)) :
           function_names(tools[i])[j] = function_names(tool)[k]
  THEN [ret |-> ErrTool(tool), all_tools |-> tools, schema |-> sch]
  ELSE [ret |-> Ok,
        all_tools |-> Append(tools, tool),
        schema |-> extend(sch, tool_schema(tool))]

\* add_tool of src/src/lib.rs that registers the tool and leaves the
\* validators as they were.
lib_add_tool_without_validators(tools, sch, validators, tool) ==
  IF \E tool_name \in DOMAIN function_name_to_validator(tool) : tool_name \in DOMAIN validators
  THEN [ret |-> ErrTool(tool), all_tools |-> tools, schema |-> sch,
        tool_name_to_validator |-> validators]
  ELSE [ret |-> Ok,
        all_tools |-> Append(tools, tool),
        schema |-> extend(sch, tool_schema(tool)),
        tool_name_to_validator |-> validators]

\* ToolBox::add_tool of src/src/lib.rs.
lib_add_tool(tools, sch, validators, tool) ==
  LET tool_names_to_validators == function_name_to_validator(tool) IN
  IF \E tool_name \in DOMAIN tool_names_to_validators : tool_name \in DOMAIN validators
  THEN [ret |-> ErrTool(tool), all_tools |-> tools, schema |-> sch,
        tool_name_to_validator |-> validators]
  ELSE [ret |-> Ok,
        all_tools |-> Append(tools, tool),
        schema |-> extend(sch, tool_schema(tool)),
        tool_name_to_validator |-> extend(validators, tool_names_to_validators)]

(***************************************************************************)
(* Results and errors                                                      *)
(***************************************************************************)
\* Result<Result<O, E>, FunctionCallError> of src/src/toolbox.rs, and
\* Result<O, ValueToolCallError<E>> of src/src/lib.rs.
OkOk(v) == [tag |-> "Ok", inner |-> [tag |-> "Ok", value |-> v]]
OkErr(e) == [tag |-> "Ok", inner |-> [tag |-> "Err", error |-> e]]
Err(e) == [tag |-> "Err", error |-> e]
OkValue(v) == [tag |-> "Ok", value |-> v]
Panic == [tag |-> "panic"]

\* FunctionCallParsingError::Parsing { issue }: the issue is the message
\* text followed by the Display of the input.
Parsing(text, input) == [kind |-> "Parsing", issue |-> [text |-> text, input |-> input]]

\* FunctionCallError::parsing(message), as the tools build it.
parsing(text, parameter) == [kind |-> "Parsing", issue |-> [text |-> text, parameter |-> parameter]]

\* FunctionCallError::FunctionNotFound { function_name }
FunctionNotFound(name) == [kind |-> "FunctionNotFound", function_name |-> name]

(***************************************************************************)
(* The tool functions and the generated Tool::call_function                *)
(***************************************************************************)
\* serde_json::from_value::<T>(value) succeeds.
from_value_ok(ty, value) ==
  CASE ty \in {"String", "str"} -> value.kind = "string"
    [] ty = "u8" -> value.kind = "number" /\ value.n >= 0 /\ value.n <= U8Max

\* serde_json::from_value::<T>(value).unwrap()
from_value(ty, value) ==
  CASE ty \in {"String", "str"} -> value.s
    [] ty = "u8" -> value.n

\* The bodies of the tool functions: greet and goodbye are MyTool's, of
\* tests/mod.rs; count is a Result-returning function that fails on 0.
function_body(tool, f, args) ==
  CASE f = "greet" ->
         [tag |-> "Ok", value |-> [type |-> "String",
            v |-> <<"This is the greeting", args[1]>>]]
    [] f = "goodbye" ->
         [tag |-> "Ok", value |-> [type |-> "u32", v |-> IF tool = "MyTool" THEN 0 ELSE 1]]
    [] f = "count" ->
         IF args[1] = 0
         THEN [tag |-> "Err", error |-> [type |-> "io::Error", v |-> "zero"]]
         ELSE [tag |-> "Ok", value |-> [type |-> "u8", v |-> args[1]]]
    [] f = "talk" -> [tag |-> "Ok", value |-> [type |-> "u32", v |-> 0]]
    [] f = "lookup" -> [tag |-> "Ok", value |-> [type |-> "String", v |-> <<args[1]>>]]

\* call_function running the function on a default argument (0, the empty
\* string) in place of a parameter that is missing or does not deserialize.
call_function_defaults(tool, name, parameters) ==
  IF name \notin Range(function_names(tool))
  THEN [ret |-> Err(FunctionNotFound(name)), ran |-> <<>>]
  ELSE
    LET ps == parameters_of(name)
        args == [i \in 1..Len(ps) |->
                   IF /\ ps[i].name \in DOMAIN parameters
                      /\ from_value_ok(ps[i].param_type, parameters[ps[i].name])
                   THEN from_value(ps[i].param_type, parameters[ps[i].name])
                   ELSE IF ps[i].param_type = "u8" THEN 0 ELSE ""]
    IN [ret |-> [tag |-> "Ok", inner |-> function_body(tool, name, args)],
        ran |-> <<[tool |-> tool, function |-> name, args |-> args]>>]

\* call_function taking every parameter out of the map twice: the second
\* take finds it missing.
call_function_takes_twice(tool, name, parameters) ==
  IF name \notin Range(function_names(tool))
  THEN [ret |-> Err(FunctionNotFound(name)), ran |-> <<>>]
  ELSE
    LET ps == parameters_of(name) IN
    IF ps # <<>>
    THEN [ret |-> Err(parsing("Missing parameter", ps[1].name)), ran |-> <<>>]
    ELSE [ret |-> [tag |-> "Ok", inner |-> function_body(tool, name, <<>>)],
          ran |-> <<[tool |-> tool, function |-> name, args |-> <<>>]>>]

\* call_function whose last arm reports the tool's first function as the one
\* not found, whatever the name was.
call_function_reports_first(tool, name, parameters) ==
  [ret |-> Err(FunctionNotFound(function_names(tool)[1])), ran |-> <<>>]

\* Tool::call_function as the macro generates it (and as MyTool writes it by
\* hand): match on the name; take and deserialize every declared parameter,
\* in declaration order, returning a parsing error at the first that is
\* missing or does not deserialize; then run the function.
call_function(tool, name, parameters) ==
  IF name \notin Range(function_names(tool))
  THEN [ret |-> Err(FunctionNotFound(name)), ran |-> <<>>]
  ELSE
    LET ps == parameters_of(name)
        bad == {i \in 1..Len(ps) :
                  \/ ps[i].name \notin DOMAIN parameters
                  \/ ~from_value_ok(ps[i].param_type, parameters[ps[i].name])}
    IN
    IF bad # {}
    THEN LET i == CHOOSE j \in bad : \A k \in bad : j <= k IN
         IF ps[i].name \notin DOMAIN parameters
         THEN [ret |-> Err(parsing("Missing parameter", ps[i].name)), ran |-> <<>>]
         ELSE [ret |-> Err(parsing("Parameter does not follow schema", ps[i].name)),
               ran |-> <<>>]
    ELSE
      LET args == [i \in 1..Len(ps) |-> from_value(ps[i].param_type, parameters[ps[i].name])]
      IN [ret |-> [tag |-> "Ok", inner |-> function_body(tool, name, args)],
          ran |-> <<[tool |-> tool, function |-> name, args |-> args]>>]

(***************************************************************************)
(* src/src/toolbox.rs: envelope parsing and dispatch                       *)
(***************************************************************************)
\* FunctionCallArgs { function_name, parameters }
FunctionCallArgs(name, parameters) == [function_name |-> name, parameters |-> parameters]

\* into_function_call_from_value without the check that the parameters
\* field is an object: the unwrap of the parameters meets any value.
into_function_call_from_value_unchecked_parameters(input) ==
  IF \/ get(input, "function_name") = {}
     \/ get(input, "parameters") = {}
  THEN Err(Parsing("The tool call is missing a field in:", input))
  ELSE IF as_str(CHOOSE v \in get(input, "function_name") : TRUE) = {}
  THEN Err(Parsing("The tool call function_name field is not a string in:", input))
  ELSE IF input.map["parameters"].kind # "object" THEN Panic
  ELSE OkValue(FunctionCallArgs(input.map["function_name"].s, input.map["parameters"].map))

\* into_function_call_from_value keeping the other top-level fields of the
\* envelope among the parameters.
into_function_call_from_value_keeps_fields(input) ==
  IF get(input, "function_name") = {}
  THEN Err(Parsing("The tool call is missing the function_name field in:", input))
  ELSE
    LET name == CHOOSE v \in get(input, "function_name") : TRUE IN
    IF as_str(name) = {}
    THEN Err(Parsing("The tool call function_name field is not a string in:", input))
    ELSE IF get(input, "parameters") = {}
    THEN Err(Parsing("The tool call is missing the parameters field in:", input))
    ELSE
      LET parameters == CHOOSE v \in get(input, "parameters") : TRUE IN
      IF ~is_object(parameters)
      THEN Err(Parsing("The tool call parameters field is not an object in:", input))
      ELSE OkValue(FunctionCallArgs(name.s,
             extend(parameters.map,
                    remove(remove(input.map, "function_name"), "parameters"))))

\* into_function_call_from_value checking the parameters field before the
\* function_name field.
into_function_call_from_value_parameters_first(input) ==
  IF get(input, "parameters") = {}
  THEN Err(Parsing("The tool call is missing the parameters field in:", input))
  ELSE
    LET parameters == CHOOSE v \in get(input, "parameters") : TRUE IN
    IF ~is_object(parameters)
    THEN Err(Parsing("The tool call parameters field is not an object in:", input))
    ELSE IF get(input, "function_name") = {}
    THEN Err(Parsing("The tool call is missing the function_name field in:", input))
    ELSE
      LET name == CHOOSE v \in get(input, "function_name") : TRUE IN
      IF as_str(name) = {}
      THEN Err(Parsing("The tool call function_name field is not a string in:", input))
      ELSE OkValue(FunctionCallArgs(name.s, parameters.map))

\* into_function_call_from_value
into_function_call_from_value(input) ==
  IF get(input, "function_name") = {}
  THEN Err(Parsing("The tool call is missing the function_name field in:", input))
  ELSE
    LET name == CHOOSE v \in get(input, "function_name") : TRUE IN
    IF as_str(name) = {}
    THEN Err(Parsing("The tool call function_name field is not a string in:", input))
    ELSE IF get(input, "parameters") = {}
    THEN Err(Parsing("The tool call is missing the parameters field in:", input))
    ELSE
      LET parameters == CHOOSE v \in get(input, "parameters") : TRUE IN
      IF ~is_object(parameters)
      THEN Err(Parsing("The tool call parameters field is not an object in:", input))
      ELSE IF input.kind # "object" THEN Panic
      ELSE
        LET map == input.map IN
        IF "function_name" \notin DOMAIN map THEN Panic
        ELSE IF map["function_name"].kind # "string" THEN Panic
        ELSE IF "parameters" \notin DOMAIN remove(map, "function_name") THEN Panic
        ELSE IF map["parameters"].kind # "object" THEN Panic
        ELSE OkValue(FunctionCallArgs(map["function_name"].s, map["parameters"].map))

\* FunctionCallParsingError::Parsing { issue } of a text that is not JSON:
\* the issue is the message alone.
NotValidJson == [kind |-> "Parsing", issue |-> [text |-> "The tool call is not valid json"]]

\* into_function_call_from_str: the text is deserialized, the
\* deserializer's error is dropped for the fixed message.
into_function_call_from_str(input) ==
  LET value == from_str(input) IN
  IF value.tag # "Ok" THEN Err(NotValidJson)
  ELSE into_function_call_from_value(value.value)

\* The scan falling through to the last tool when no name matches.
first_match_or_last(tools, name) ==
  LET hits == {i \in 1..Len(tools) : name \in Range(function_names(tools[i]))} IN
  IF hits = {} THEN Len(tools) ELSE CHOOSE i \in hits : \A j \in hits : i <= j

\* The index of the first tool, in registration order, one of whose
\* function names is the requested one; 0 when there is none.
first_match(tools, name) ==
  LET hits == {i \in 1..Len(tools) : name \in Range(function_names(tools[i]))} IN
  IF hits = {} THEN 0 ELSE CHOOSE i \in hits : \A j \in hits : i <= j

\* A dispatch that offers the call to every tool in turn, up to the one
\* that has the function.
call_from_args_tries_each(tools, function_call) ==
  LET i == first_match(tools, function_call.function_name)
      tried == IF i = 0 THEN Len(tools) ELSE i
      r == IF i = 0
           THEN [ret |-> Err(FunctionNotFound(function_call.function_name)), ran |-> <<>>]
           ELSE call_function(tools[i], function_call.function_name,
                              function_call.parameters)
  IN [ret |-> r.ret,
      invoked |-> [k \in 1..tried |->
                     [tool |-> tools[k], index |-> k,
                      name |-> function_call.function_name,
                      parameters |-> function_call.parameters]],
      ran |-> r.ran]

\* A dispatch that reports the failure of the function as its own error.
call_from_args_flattens(tools, function_call) ==
  LET i == first_match(tools, function_call.function_name) IN
  IF i = 0
  THEN [ret |-> Err(FunctionNotFound(function_call.function_name)),
        invoked |-> <<>>, ran |-> <<>>]
  ELSE
    LET r == call_function(tools[i], function_call.function_name, function_call.parameters)
    IN [ret |-> IF r.ret.tag = "Ok" /\ r.ret.inner.tag = "Err"
                THEN Err(parsing("The function failed", function_call.function_name))
                ELSE r.ret,
        invoked |-> <<[tool |-> tools[i], index |-> i,
                       name |-> function_call.function_name,
                       parameters |-> function_call.parameters]>>,
        ran |-> r.ran]

\* ToolBox::call_from_args: forward to the first matching tool.
call_from_args(tools, function_call) ==
  LET i == first_match(tools, function_call.function_name) IN
  IF i = 0
  THEN [ret |-> Err(FunctionNotFound(function_call.function_name)),
        invoked |-> <<>>, ran |-> <<>>]
  ELSE
    LET r == call_function(tools[i], function_call.function_name, function_call.parameters)
    IN [ret |-> r.ret,
        invoked |-> <<[tool |-> tools[i], index |-> i,
                       name |-> function_call.function_name,
                       parameters |-> function_call.parameters]>>,
        ran |-> r.ran]

\* call_from_value dispatching an envelope that has no parameters field
\* with no parameters, in place of returning the parse error.
call_from_value_defaults_parameters(tools, input) ==
  LET function_call == into_function_call_from_value(input) IN
  IF function_call.tag = "Ok" THEN call_from_args(tools, function_call.value)
  ELSE IF /\ get(input, "function_name") # {}
          /\ as_str(CHOOSE v \in get(input, "function_name") : TRUE) # {}
          /\ get(input, "parameters") = {}
  THEN call_from_args(tools,
         FunctionCallArgs((CHOOSE v \in get(input, "function_name") : TRUE).s, EmptyMap))
  ELSE [ret |-> function_call, invoked |-> <<>>, ran |-> <<>>]

\* ToolBox::call_from_value: parse, then dispatch.
call_from_value(tools, input) ==
  LET function_call == into_function_call_from_value(input) IN
  IF function_call.tag # "Ok"
  THEN [ret |-> function_call, invoked |-> <<>>, ran |-> <<>>]
  ELSE call_from_args(tools, function_call.value)

\* ToolBox::call_from_str: parse the text, then dispatch.
call_from_str(tools, text) ==
  LET function_call == into_function_call_from_str(text) IN
  IF function_call.tag # "Ok"
  THEN [ret |-> function_call, invoked |-> <<>>, ran |-> <<>>]
  ELSE call_from_args(tools, function_call.value)

(***************************************************************************)
(* src/src/lib.rs: schema-validated parsing and dispatch                   *)
(***************************************************************************)
\* ValueToolCallParseError
MissingName(input) == [kind |-> "MissingName", input |-> input]
NameNotAString(input) == [kind |-> "NameNotAString", input |-> input]
MissingParameters(input) == [kind |-> "MissingParameters", input |-> input]
ParametersNotAObject(input) == [kind |-> "ParametersNotAObject", input |-> input]
ToolDoesNotExist(input, name) == [kind |-> "ToolDoesNotExist", input |-> input, name |-> name]
DoesNotMatchToolSchema(input, issue) ==
  [kind |-> "DoesNotMatchToolSchema", input |-> input, issue |-> issue]

\* ValueToolCallError::Tool(e)
ToolError(e) == [kind |-> "Tool", error |-> e]

\* The instance matches the JSON Schema type.
matches_type(ty, value) ==
  CASE ty = "string" -> value.kind = "string"
    [] ty = "integer" -> value.kind = "number"

\* A validator that does not check the required properties.
validate_properties_only(validator, instance) ==
  {[issue |-> "is not of the type", instance |-> instance.map[p],
    instance_path |-> <<p>>, schema_path |-> <<"properties", p, "type">>, property |-> p] :
      p \in {q \in DOMAIN validator.properties \cap DOMAIN instance.map :
               ~matches_type(validator.properties[q], instance.map[q])}}

\* jsonschema::Validator::validate(instance): the violations of the parameter
\* schema, each with the instance path (the JSON pointer of the value that
\* violates) and the schema path (the keyword violated).  A missing required
\* property is a violation of the object itself, whose pointer is empty.
validate(validator, instance) ==
  {[issue |-> "is a required property", instance |-> instance,
    instance_path |-> <<>>, schema_path |-> <<"required">>, property |-> validator.required[i]] :
      i \in {j \in 1..Len(validator.required) : validator.required[j] \notin DOMAIN instance.map}}
  \cup
  {[issue |-> "is not of the type", instance |-> instance.map[p],
    instance_path |-> <<p>>, schema_path |-> <<"properties", p, "type">>, property |-> p] :
      p \in {q \in DOMAIN validator.properties \cap DOMAIN instance.map :
               ~matches_type(validator.properties[q], instance.map[q])}}

\* FunctionCall { name, parameters }
FunctionCall(name, parameters) == [name |-> name, parameters |-> parameters]

\* ToolBox::parse_value_tool_call.  The result is the set of the possible
\* outcomes: a single one, except that a parameters object with several
\* violations may be reported by any one of them.
parse_value_tool_call(validators, input) ==
  IF get(input, "name") = {} THEN {Err(MissingName(input))}
  ELSE
    LET name == CHOOSE v \in get(input, "name") : TRUE IN
    IF as_str(name) = {} THEN {Err(NameNotAString(input))}
    ELSE IF name.s \notin DOMAIN validators THEN {Err(ToolDoesNotExist(input, name.s))}
    ELSE IF get(input, "parameters") = {} THEN {Err(MissingParameters(input))}
    ELSE
      LET parameters == CHOOSE v \in get(input, "parameters") : TRUE IN
      IF ~is_object(parameters) THEN {Err(ParametersNotAObject(input))}
      ELSE IF validate(validators[name.s], parameters) # {}
      THEN {Err(DoesNotMatchToolSchema(input,
                  [issue |-> error.issue, instance |-> error.instance,
                   instance_path |-> error.instance_path,
                   schema_path |-> error.schema_path])) :
              error \in validate(validators[name.s], parameters)}
      ELSE IF input.kind # "object" THEN {Panic}
      ELSE
        LET map == input.map IN
        IF "name" \notin DOMAIN map THEN {Panic}
        ELSE IF map["name"].kind # "string" THEN {Panic}
        ELSE IF "parameters" \notin DOMAIN remove(map, "name") THEN {Panic}
        ELSE IF map["parameters"].kind # "object" THEN {Panic}
        ELSE {OkValue(FunctionCall(map["name"].s, map["parameters"].map))}

\* Tool::run(name, parameters) of src/src/lib.rs: "executes the core
\* functionality of the tool".  The result is the function's, applied to the
\* parameters that deserialize; the tool has no function to run for a name
\* that is not one of its own.
run(tool, name, parameters) ==
  IF name \notin Range(function_names(tool)) THEN Panic
  ELSE
  LET ps == parameters_of(name) IN
  IF \E i \in 1..Len(ps) :
       \/ ps[i].name \notin DOMAIN parameters
       \/ ~from_value_ok(ps[i].param_type, parameters[ps[i].name])
  THEN Panic
  ELSE function_body(tool, name,
         [i \in 1..Len(ps) |-> from_value(ps[i].param_type, parameters[ps[i].name])])

\* ToolBox::call of src/src/lib.rs: scan, run the first match; panic when
\* no tool provides the name.
call(tools, function_call) ==
  LET i == first_match(tools, function_call.name) IN
  IF i = 0
  THEN [ret |-> Panic, invoked |-> <<>>, ran |-> <<>>]
  ELSE [ret |-> run(tools[i], function_call.name, function_call.parameters),
        invoked |-> <<[tool |-> tools[i], index |-> i, name |-> function_call.name,
                       parameters |-> function_call.parameters]>>,
        ran |-> <<[tool |-> tools[i], function |-> function_call.name,
                   args |-> function_call.parameters]>>]

\* ToolBox::call_from_value of src/src/lib.rs: the possible outcomes.
lib_call_from_value(tools, validators, input) ==
  {IF tool_call.tag # "Ok"
   THEN [ret |-> tool_call, invoked |-> <<>>, ran |-> <<>>]
   ELSE LET r == call(tools, tool_call.value) IN
        [ret |-> IF r.ret.tag = "Err" THEN Err(ToolError(r.ret.error)) ELSE r.ret,
         invoked |-> r.invoked, ran |-> r.ran] :
     tool_call \in parse_value_tool_call(validators, input)}

\* StrToolCallParseError::ConversionError(serde_json::Error)
ConversionError(e) == [kind |-> "ConversionError", error |-> e]

\* ToolBox::parse_str_tool_call: the deserializer's error is converted by
\* the ? operator, and an error of parse_value_tool_call is coerced to the
\* variant of the same name.
parse_str_tool_call(validators, input) ==
  LET value == from_str(input) IN
  IF value.tag # "Ok" THEN {Err(ConversionError(value.error))}
  ELSE parse_value_tool_call(validators, value.value)

\* ToolBox::call_from_str of src/src/lib.rs: the possible outcomes.
lib_call_from_str(tools, validators, text) ==
  {IF tool_call.tag # "Ok"
   THEN [ret |-> tool_call, invoked |-> <<>>, ran |-> <<>>]
   ELSE LET r == call(tools, tool_call.value) IN
        [ret |-> IF r.ret.tag = "Err" THEN Err(ToolError(r.ret.error)) ELSE r.ret,
         invoked |-> r.invoked, ran |-> r.ran] :
     tool_call \in parse_str_tool_call(validators, text)}

(***************************************************************************)
(* The inputs of the calls                                                 *)
(***************************************************************************)
\* A map with the given entries: a set of <<key, value>> pairs with
\* distinct keys.
MapOf(entries) ==
  [k \in {e[1] : e \in entries} |-> (CHOOSE e \in entries : e[1] = k)[2]]

\* The values of the name field: function names, a name that no tool
\* provides, and a value that is not a string.
NameValues == {JStr(n) : n \in {"greet", "goodbye", "count", "bye"}} \cup {JNum(1)}

\* The parameters objects.
ParameterMaps ==
  {EmptyMap,
   MapOf({<<"greeting", JStr("hi")>>}),
   MapOf({<<"greeting", JNum(1)>>}),
   MapOf({<<"n", JNum(1)>>}),
   MapOf({<<"n", JNum(0)>>}),
   MapOf({<<"n", JNum(300)>>})}

\* The values of the parameters field: objects and non-objects.
ParameterValues == {JObj(m) : m \in ParameterMaps} \cup {JStr("p")}

\* The top-level values that are not objects.
NonObjects == {JNull, JBool(TRUE), JNum(1), JStr("greet"), JArr(<<>>)}

\* The envelopes: objects with or without a name field (under either key),
\* with or without a parameters field, with or without another field.
Envelopes ==
  {JObj(MapOf(n \cup p \cup x)) :
     n \in {{}} \cup {{<<k, v>>} : k \in {"function_name", "name"}, v \in NameValues},
     p \in {{}} \cup {{<<"parameters", v>>} : v \in ParameterValues},
     x \in {{}, {<<"id", JNum(1)>>}}}

Inputs == NonObjects \cup Envelopes

\* The values whose texts are the valid JSON texts of the calls: values
\* that are not objects, and envelopes under either name key.
TextValues ==
  {JNull, JNum(1), JStr("greet"), JArr(<<>>)}
  \cup {JObj(MapOf({<<k, JStr(e[1])>>, <<"parameters", JObj(e[2])>>} \cup x)) :
          k \in {"function_name", "name"},
          e \in {<<"greet", MapOf({<<"greeting", JStr("hi")>>})>>,
                 <<"greet", MapOf({<<"greeting", JNum(1)>>})>>,
                 <<"count", MapOf({<<"n", JNum(0)>>})>>,
                 <<"count", MapOf({<<"n", JNum(300)>>})>>,
                 <<"bye", EmptyMap>>},
          x \in {{}, {<<"id", JNum(1)>>}}}
  \cup {JObj(MapOf({<<k, JStr("greet")>>})) : k \in {"function_name", "name"}}
  \cup {JObj(MapOf({<<k, JNum(1)>>, <<"parameters", JObj(EmptyMap)>>})) :
          k \in {"function_name", "name"}}
  \cup {JObj(MapOf({<<"parameters", JStr("p")>>}))}

\* The texts of the values.
JsonTexts == {to_string(v) : v \in TextValues}

\* Texts that are not JSON: the empty text, a word, an object that is not
\* closed, members without a comma between them, and a value followed by
\* another token.
NonJsonTexts ==
  {<<>>,
   <<Tok("greet")>>,
   <<Tok("{"), TStr("function_name"), Tok(":"), TStr("greet")>>,
   <<Tok("{"), TStr("function_name"), Tok(":"), TStr("greet"),
     TStr("parameters"), Tok(":"), Tok("{"), Tok("}"), Tok("}")>>,
   <<Tok("{"), TStr("name"), Tok(":"), TStr("goodbye"), Tok(","),
     TStr("parameters"), Tok(":"), Tok("{"), Tok("}"), Tok("}"), Tok("}")>>,
   <<Tok("{"), TStr("function_name"), Tok(":"), TStr("goodbye"), Tok(","),
     TStr("parameters"), Tok(":"), Tok("{"), Tok("}"), Tok("}"), Tok("}")>>}

Texts == JsonTexts \cup NonJsonTexts

\* The FunctionCallArgs / FunctionCall values a caller can hold: parsed by
\* this ToolBox or by another one (whose tools need not be this one's), or
\* the Default value, whose name is empty.
FunctionCallNames == {"greet", "goodbye", "count", "bye", ""}

FunctionCallParameters ==
  {EmptyMap,
   MapOf({<<"greeting", JStr("hi")>>}),
   MapOf({<<"n", JNum(0)>>}),
   MapOf({<<"n", JNum(1)>>})}

\* parse_value_tool_call returns a FunctionCall only for parameters that its
\* validator of the name accepts.
LibFunctionCalls ==
  {function_call \in
     {FunctionCall(n, ps) : n \in FunctionCallNames, ps \in FunctionCallParameters} :
       function_call.name \in FunctionNames =>
         validate(create_function_parameter_json_schema(function_call.name),
                  JObj(function_call.parameters)) = {}}

(***************************************************************************)
(* State machine                                                           *)
(***************************************************************************)
NoCall == [kind |-> "none"]

\* A call slot with no call in flight.
Idle == [pc |-> "idle"]

\* ToolBox::new(): no tools, empty schema, no validators.
Init ==
  /\ impl \in {"toolbox.rs", "lib.rs"}
  /\ all_tools = <<>>
  /\ schema = EmptyMap
  /\ tool_name_to_validator = EmptyMap
  /\ last = [op |-> "new", arg |-> NoCall, ret |-> Ok, invoked |-> <<>>, ran |-> <<>>,
             pre_tools |-> <<>>, pre_schema |-> EmptyMap,
             pre_validators |-> EmptyMap]
  /\ calls = [c \in 1..MaxCalls |-> Idle]

AddTool ==
  /\ impl = "toolbox.rs"
  /\ \E tool \in ToolIds :
       LET r == add_tool(all_tools, schema, tool) IN
       /\ Len(r.all_tools) <= MaxTools
       /\ all_tools' = r.all_tools
       /\ schema' = r.schema
       /\ last' = [op |-> "add_tool", arg |-> [tool |-> tool], ret |-> r.ret,
                   invoked |-> <<>>, ran |-> <<>>,
                   pre_tools |-> all_tools, pre_schema |-> schema,
                   pre_validators |-> tool_name_to_validator]
  /\ UNCHANGED <<impl, tool_name_to_validator, calls>>

LibAddTool ==
  /\ impl = "lib.rs"
  /\ \E tool \in ToolIds :
       LET r == lib_add_tool(all_tools, schema, tool_name_to_validator, tool) IN
       /\ Len(r.all_tools) <= MaxTools
       /\ all_tools' = r.all_tools
       /\ schema' = r.schema
       /\ tool_name_to_validator' = r.tool_name_to_validator
       /\ last' = [op |-> "add_tool", arg |-> [tool |-> tool], ret |-> r.ret,
                   invoked |-> <<>>, ran |-> <<>>,
                   pre_tools |-> all_tools, pre_schema |-> schema,
                   pre_validators |-> tool_name_to_validator]
  /\ UNCHANGED <<impl, calls>>

CallFromValue ==
  /\ impl = "toolbox.rs"
  /\ \E input \in Inputs :
       LET r == call_from_value(all_tools, input) IN
       last' = [op |-> "call_from_value", arg |-> input, ret |-> r.ret,
                invoked |-> r.invoked, ran |-> r.ran,
                pre_tools |-> all_tools, pre_schema |-> schema,
                   pre_validators |-> tool_name_to_validator]
  /\ UNCHANGED <<impl, all_tools, schema, tool_name_to_validator, calls>>

LibCallFromValue ==
  /\ impl = "lib.rs"
  /\ \E input \in Inputs :
       \E r \in lib_call_from_value(all_tools, tool_name_to_validator, input) :
         last' = [op |-> "call_from_value", arg |-> input, ret |-> r.ret,
                  invoked |-> r.invoked, ran |-> r.ran,
                  pre_tools |-> all_tools, pre_schema |-> schema,
                   pre_validators |-> tool_name_to_validator]
  /\ UNCHANGED <<impl, all_tools, schema, tool_name_to_validator, calls>>

CallFromStr ==
  /\ impl = "toolbox.rs"
  /\ \E text \in Texts :
       LET r == call_from_str(all_tools, text) IN
       last' = [op |-> "call_from_str", arg |-> [text |-> text], ret |-> r.ret,
                invoked |-> r.invoked, ran |-> r.ran,
                pre_tools |-> all_tools, pre_schema |-> schema,
                pre_validators |-> tool_name_to_validator]
  /\ UNCHANGED <<impl, all_tools, schema, tool_name_to_validator, calls>>

LibCallFromStr ==
  /\ impl = "lib.rs"
  /\ \E text \in Texts :
       \E r \in lib_call_from_str(all_tools, tool_name_to_validator, text) :
         last' = [op |-> "call_from_str", arg |-> [text |-> text], ret |-> r.ret,
                  invoked |-> r.invoked, ran |-> r.ran,
                  pre_tools |-> all_tools, pre_schema |-> schema,
                  pre_validators |-> tool_name_to_validator]
  /\ UNCHANGED <<impl, all_tools, schema, tool_name_to_validator, calls>>

\* A dispatch that takes the tool it forwards to out of the list.
CallFromArgs_takes_tool ==
  /\ impl = "toolbox.rs"
  /\ \E n \in FunctionCallNames, ps \in FunctionCallParameters :
       LET r == call_from_args(all_tools, FunctionCallArgs(n, ps))
           i == first_match(all_tools, n)
       IN
       /\ all_tools' = IF i = 0 THEN all_tools
                       ELSE SubSeq(all_tools, 1, i - 1)
                              \o SubSeq(all_tools, i + 1, Len(all_tools))
       /\ last' = [op |-> "call", arg |-> FunctionCallArgs(n, ps), ret |-> r.ret,
                   invoked |-> r.invoked, ran |-> r.ran,
                   pre_tools |-> all_tools, pre_schema |-> schema,
                   pre_validators |-> tool_name_to_validator]
  /\ UNCHANGED <<impl, schema, tool_name_to_validator, calls>>

CallFromArgs ==
  /\ impl = "toolbox.rs"
  /\ \E n \in FunctionCallNames, ps \in FunctionCallParameters :
       LET r == call_from_args(all_tools, FunctionCallArgs(n, ps)) IN
       last' = [op |-> "call", arg |-> FunctionCallArgs(n, ps), ret |-> r.ret,
                invoked |-> r.invoked, ran |-> r.ran,
                pre_tools |-> all_tools, pre_schema |-> schema,
                pre_validators |-> tool_name_to_validator]
  /\ UNCHANGED <<impl, all_tools, schema, tool_name_to_validator, calls>>

LibCall ==
  /\ impl = "lib.rs"
  /\ \E function_call \in LibFunctionCalls :
       LET r == call(all_tools, function_call) IN
       last' = [op |-> "call", arg |-> function_call, ret |-> r.ret,
                invoked |-> r.invoked, ran |-> r.ran,
                pre_tools |-> all_tools, pre_schema |-> schema,
                pre_validators |-> tool_name_to_validator]
  /\ UNCHANGED <<impl, all_tools, schema, tool_name_to_validator, calls>>

\* ToolBox::into_function_call_from_value (toolbox.rs, lines 147-149)
IntoFunctionCallFromValue ==
  /\ impl = "toolbox.rs"
  /\ \E input \in TextValues :
       last' = [op |-> "parse_value", arg |-> input,
                ret |-> into_function_call_from_value(input),
                invoked |-> <<>>, ran |-> <<>>,
                pre_tools |-> all_tools, pre_schema |-> schema,
                pre_validators |-> tool_name_to_validator]
  /\ UNCHANGED <<impl, all_tools, schema, tool_name_to_validator, calls>>

\* ToolBox::into_function_call_from_str (toolbox.rs, lines 143-145)
IntoFunctionCallFromStr ==
  /\ impl = "toolbox.rs"
  /\ \E text \in Texts :
       last' = [op |-> "parse_str", arg |-> [text |-> text],
                ret |-> into_function_call_from_str(text),
                invoked |-> <<>>, ran |-> <<>>,
                pre_tools |-> all_tools, pre_schema |-> schema,
                pre_validators |-> tool_name_to_validator]
  /\ UNCHANGED <<impl, all_tools, schema, tool_name_to_validator, calls>>

ParseValueToolCall ==
  /\ impl = "lib.rs"
  /\ \E input \in TextValues :
       \E ret \in parse_value_tool_call(tool_name_to_validator, input) :
         last' = [op |-> "parse_value", arg |-> input, ret |-> ret,
                  invoked |-> <<>>, ran |-> <<>>,
                  pre_tools |-> all_tools, pre_schema |-> schema,
                  pre_validators |-> tool_name_to_validator]
  /\ UNCHANGED <<impl, all_tools, schema, tool_name_to_validator, calls>>

ParseStrToolCall ==
  /\ impl = "lib.rs"
  /\ \E text \in Texts :
       \E ret \in parse_str_tool_call(tool_name_to_validator, text) :
         last' = [op |-> "parse_str", arg |-> [text |-> text], ret |-> ret,
                  invoked |-> <<>>, ran |-> <<>>,
                  pre_tools |-> all_tools, pre_schema |-> schema,
                  pre_validators |-> tool_name_to_validator]
  /\ UNCHANGED <<impl, all_tools, schema, tool_name_to_validator, calls>>

\* <FunctionCallArgs as Default>::default(), derived at toolbox.rs line 208:
\* the caller obtains the value with the empty name and no parameters.
DefaultFunctionCallArgs ==
  /\ impl = "toolbox.rs"
  /\ last' = [op |-> "default", arg |-> NoCall,
              ret |-> OkValue(FunctionCallArgs("", EmptyMap)),
              invoked |-> <<>>, ran |-> <<>>,
              pre_tools |-> all_tools, pre_schema |-> schema,
              pre_validators |-> tool_name_to_validator]
  /\ UNCHANGED <<impl, all_tools, schema, tool_name_to_validator, calls>>

\* <FunctionCall as Default>::default(), derived at lib.rs line 159.
DefaultFunctionCall ==
  /\ impl = "lib.rs"
  /\ last' = [op |-> "default", arg |-> NoCall,
              ret |-> OkValue(FunctionCall("", EmptyMap)),
              invoked |-> <<>>, ran |-> <<>>,
              pre_tools |-> all_tools, pre_schema |-> schema,
              pre_validators |-> tool_name_to_validator]
  /\ UNCHANGED <<impl, all_tools, schema, tool_name_to_validator, calls>>

Next ==
  \/ AddTool \/ LibAddTool
  \/ CallFromValue \/ LibCallFromValue
  \/ CallFromStr \/ LibCallFromStr
  \/ CallFromArgs \/ LibCall
  \/ IntoFunctionCallFromValue \/ ParseValueToolCall
  \/ IntoFunctionCallFromStr \/ ParseStrToolCall
  \/ DefaultFunctionCallArgs \/ DefaultFunctionCall

Spec == Init /\ [][Next]_vars

(***************************************************************************)
(* Concurrent dispatch on one ToolBox of src/src/toolbox.rs.  A call is a  *)
(* future of call_from_args: it scans the tools, and the tool's            *)
(* call_function deserializes the parameters, without suspending; the only *)
(* await is on the tool function.  add_tool takes &mut self, so it cannot  *)
(* run while a future borrows the ToolBox.                                 *)
(***************************************************************************)
\* The FunctionCallArgs of the concurrent calls.
ConcurrentCalls ==
  {FunctionCallArgs("greet", MapOf({<<"greeting", JStr("hi")>>})),
   FunctionCallArgs("greet", EmptyMap),
   FunctionCallArgs("goodbye", EmptyMap),
   FunctionCallArgs("count", MapOf({<<"n", JNum(0)>>})),
   FunctionCallArgs("count", MapOf({<<"n", JNum(1)>>})),
   FunctionCallArgs("bye", EmptyMap)}

\* call_from_args up to its await: the call returns at once when no tool
\* provides the name or a parameter does not deserialize, and is suspended
\* at the tool function otherwise.
StartCall ==
  /\ \E c \in 1..MaxCalls, function_call \in ConcurrentCalls :
       /\ calls[c].pc = "idle"
       /\ LET r == call_from_args(all_tools, function_call) IN
          calls' = [calls EXCEPT ![c] =
            IF r.ran = <<>>
            THEN [pc |-> "done", arg |-> function_call, ret |-> r.ret,
                  pre_tools |-> all_tools, pre_schema |-> schema]
            ELSE [pc |-> "suspended", arg |-> function_call,
                  tool |-> r.ran[1].tool, function |-> r.ran[1].function,
                  args |-> r.ran[1].args,
                  pre_tools |-> all_tools, pre_schema |-> schema]]
  /\ UNCHANGED <<impl, all_tools, schema, tool_name_to_validator, last>>

\* A ToolBox that keeps the function and arguments of the call being
\* dispatched in one slot of its own: a call that resumes reads the slot as
\* the call started last (here: the suspended call of the highest index)
\* left it.
ResumeCall_shared_slot ==
  /\ \E c \in 1..MaxCalls :
       /\ calls[c].pc = "suspended"
       /\ LET latest == CHOOSE d \in 1..MaxCalls :
                          /\ calls[d].pc = "suspended"
                          /\ \A e \in 1..MaxCalls : calls[e].pc = "suspended" => e <= d
          IN calls' = [calls EXCEPT ![c] =
               [pc |-> "done", arg |-> calls[c].arg,
                ret |-> [tag |-> "Ok",
                         inner |-> function_body(calls[latest].tool, calls[latest].function,
                                                 calls[latest].args)],
                pre_tools |-> calls[c].pre_tools, pre_schema |-> calls[c].pre_schema]]
  /\ UNCHANGED <<impl, all_tools, schema, tool_name_to_validator, last>>

\* The tool function of a suspended call completes, and call_from_args
\* returns its result.
ResumeCall ==
  /\ \E c \in 1..MaxCalls :
       /\ calls[c].pc = "suspended"
       /\ calls' = [calls EXCEPT ![c] =
            [pc |-> "done", arg |-> calls[c].arg,
             ret |-> [tag |-> "Ok",
                      inner |-> function_body(calls[c].tool, calls[c].function,
                                              calls[c].args)],
             pre_tools |-> calls[c].pre_tools, pre_schema |-> calls[c].pre_schema]]
  /\ UNCHANGED <<impl, all_tools, schema, tool_name_to_validator, last>>

\* The caller takes the result of a call that has returned; the slot is
\* free for another call.
FinishCall ==
  /\ \E c \in 1..MaxCalls :
       /\ calls[c].pc = "done"
       /\ calls' = [calls EXCEPT ![c] = Idle]
  /\ UNCHANGED <<impl, all_tools, schema, tool_name_to_validator, last>>

\* add_tool(&mut self): while no call is in flight, and after the results
\* of the calls that returned have been taken.
ExclusiveAddTool ==
  /\ \A c \in 1..MaxCalls : calls[c].pc = "idle"
  /\ AddTool

InitConcurrent == Init /\ impl = "toolbox.rs"

NextConcurrent == ExclusiveAddTool \/ StartCall \/ ResumeCall \/ FinishCall

SpecConcurrent == InitConcurrent /\ [][NextConcurrent]_vars

(***************************************************************************)
(* src/llmtool/src/lib.rs: the expansion of #[tool] on an impl block       *)
(***************************************************************************)
\* Bound on the number of items of an impl block.
MaxItems == 2

\* syn::Type of a return type: a path of some segments, the identifier of
\* the last segment and its generic type arguments.
TypePath(segments, ident, args) == [segments |-> segments, ident |-> ident, args |-> args]

\* A type written as one identifier.
Named(ident) == TypePath(1, ident, <<>>)

\* syn::ReturnType::Default: the signature has no return type.
NoReturnType == TypePath(0, "", <<>>)

\* ReturnType::Result(ResultReturnType { okay, error })
ResultReturnType(okay, error) == [kind |-> "Result", okay |-> okay, error |-> error]

\* ReturnType::Other(OtherReturnType { other })
OtherReturnType(other) == [kind |-> "Other", other |-> other]

\* syn::Error turned into a compile error: the expansion is the error.
CompileError(message, at) == [tag |-> "Err", error |-> [message |-> message, at |-> at]]

\* extract_function_defintion, as far as the name and the return type go: a
\* return type that is a path of one segment with two or more generic type
\* arguments is read as a Result of the first two; any other is Other.
extract_function_defintion(method) ==
  IF method.output = NoReturnType
  THEN CompileError("Currently, tool functions must have a return type", method.name)
  ELSE [tag |-> "Ok",
        value |-> [name_str |-> method.name,
                   return_type |->
                     IF method.output.segments = 1 /\ Len(method.output.args) >= 2
                     THEN ResultReturnType(method.output.args[1], method.output.args[2])
                     ELSE OtherReturnType(method.output)]]

\* extract_description: the function and each parameter need a description
\* in the doc comments.
extract_description(method) ==
  IF method.described THEN Ok
  ELSE CompileError("missing description", method.name)

\* enum ImplTypes
BoxAndBox == [kind |-> "BoxAndBox"]
BoxAndSpecific(err_type) == [kind |-> "BoxAndSpecific", err_type |-> err_type]
SpecificAndBox(ok_type) == [kind |-> "SpecificAndBox", ok_type |-> ok_type]
SpecificAndSpecific(ok_type, err_type) ==
  [kind |-> "SpecificAndSpecific", ok_type |-> ok_type, err_type |-> err_type]
BoxAndInfallible == [kind |-> "BoxAndInfallible"]
SpecificAndInfallible(ok_type) == [kind |-> "SpecificAndInfallible", ok_type |-> ok_type]

\* The impls needed with the erased Error left out for regular functions.
determine_impls_needed_regular_without_box(common_ok_type, common_err_type, all_functions_are_regular) ==
  [tag |-> "Ok",
   vecs |-> IF all_functions_are_regular THEN <<BoxAndInfallible>> ELSE <<BoxAndBox>>]

\* determine_impls_needed.  An Option is the set of its values; the result
\* is the vector of impls, or the panic of the assert.
determine_impls_needed(common_ok_type, common_err_type, all_functions_are_regular) ==
  LET vecs ==
        IF common_ok_type = {} /\ common_err_type = {} THEN <<>>
        ELSE IF common_ok_type = {}
        THEN <<BoxAndSpecific(CHOOSE e \in common_err_type : TRUE)>>
        ELSE IF common_err_type = {}
        THEN <<SpecificAndBox(CHOOSE o \in common_ok_type : TRUE)>>
        ELSE LET ok_type == CHOOSE o \in common_ok_type : TRUE
                 err_type == CHOOSE e \in common_err_type : TRUE
             IN <<BoxAndSpecific(err_type), SpecificAndBox(ok_type),
                  SpecificAndSpecific(ok_type, err_type)>>
  IN
  IF all_functions_are_regular
  THEN IF common_err_type # {} THEN Panic
       ELSE IF common_ok_type # {}
       THEN [tag |-> "Ok",
             vecs |-> vecs \o <<BoxAndInfallible,
                                SpecificAndInfallible(CHOOSE o \in common_ok_type : TRUE),
                                BoxAndBox>>]
       ELSE [tag |-> "Ok", vecs |-> vecs \o <<BoxAndInfallible, BoxAndBox>>]
  ELSE [tag |-> "Ok", vecs |-> Append(vecs, BoxAndBox)]

\* impl_trait: one impl of Tool<ok_type, err_type>; its function_names are
\* the names of the function definitions, in their order.
impl_trait(function_definitions, ok_needs_box, err_needs_box, impl_needed) ==
  [impl_needed |-> impl_needed,
   ok_needs_box |-> ok_needs_box,
   err_needs_box |-> err_needs_box,
   function_names |-> [i \in 1..Len(function_definitions) |->
                         function_definitions[i].name_str]]

\* The error types of the functions that return a Result (result_err of
\* impl_traits).
result_err(function_definitions) ==
  {function_definitions[i].return_type.error :
     i \in {j \in 1..Len(function_definitions) :
              function_definitions[j].return_type.kind = "Result"}}

\* The Ok types of the functions that return a Result, the regular ones
\* left out.
result_ok_only(function_definitions) ==
  {function_definitions[i].return_type.okay :
     i \in {j \in 1..Len(function_definitions) :
              function_definitions[j].return_type.kind = "Result"}}

\* The Ok types of the functions that return a Result and the return types
\* of the others (result_ok_and_regular of impl_traits).
result_ok_and_regular(function_definitions) ==
  {IF function_definitions[i].return_type.kind = "Result"
   THEN function_definitions[i].return_type.okay
   ELSE function_definitions[i].return_type.other : i \in 1..Len(function_definitions)}

\* The functions taken for regular when at most one error type was
\* collected.
all_functions_are_regular_up_to_one(function_definitions) ==
  Cardinality(result_err(function_definitions)) <= 1

\* all_functions_are_regular of impl_traits: no error type was collected.
all_functions_are_regular(function_definitions) ==
  Cardinality(result_err(function_definitions)) = 0

\* impl_traits: a set of one element gives the common type; the impls
\* needed are generated one by one.
impl_traits(function_definitions) ==
  LET common_err_type ==
        IF Cardinality(result_err(function_definitions)) = 1
        THEN result_err(function_definitions) ELSE {}
      common_ok_type ==
        IF Cardinality(result_ok_and_regular(function_definitions)) = 1
        THEN result_ok_and_regular(function_definitions) ELSE {}
      impls_needed ==
        determine_impls_needed(common_ok_type, common_err_type,
                               all_functions_are_regular(function_definitions))
  IN
  IF impls_needed.tag # "Ok" THEN Panic
  ELSE [tag |-> "Ok",
        impls |-> [i \in 1..Len(impls_needed.vecs) |->
                     impl_trait(function_definitions,
                                impls_needed.vecs[i].kind \in {"BoxAndBox", "BoxAndSpecific",
                                                               "BoxAndInfallible"},
                                impls_needed.vecs[i].kind \in {"BoxAndBox", "SpecificAndBox"},
                                impls_needed.vecs[i])]]

\* The #[tool] macro without the check for an impl block that has no
\* #[tool_part] function.
tool_without_empty_check(input) ==
  LET methods == SelectSeq(input, LAMBDA item : item.kind = "fn" /\ item.tool_part)
      failed(i) == \/ extract_function_defintion(methods[i]).tag # "Ok"
                   \/ extract_description(methods[i]).tag # "Ok"
      failures == {i \in 1..Len(methods) : failed(i)}
  IN
  IF failures # {}
  THEN LET i == CHOOSE j \in failures : \A k \in failures : j <= k IN
       IF extract_function_defintion(methods[i]).tag # "Ok"
       THEN extract_function_defintion(methods[i])
       ELSE extract_description(methods[i])
  ELSE impl_traits([i \in 1..Len(methods) |-> extract_function_defintion(methods[i]).value])

\* The #[tool] macro: the methods that carry #[tool_part] are kept in
\* their order; the first that has no return type or lacks a description
\* makes the expansion a compile error; so does a block with none.
tool(input) ==
  LET methods == SelectSeq(input, LAMBDA item : item.kind = "fn" /\ item.tool_part)
      failed(i) == \/ extract_function_defintion(methods[i]).tag # "Ok"
                   \/ extract_description(methods[i]).tag # "Ok"
      failures == {i \in 1..Len(methods) : failed(i)}
  IN
  IF failures # {}
  THEN LET i == CHOOSE j \in failures : \A k \in failures : j <= k IN
       IF extract_function_defintion(methods[i]).tag # "Ok"
       THEN extract_function_defintion(methods[i])
       ELSE extract_description(methods[i])
  ELSE IF methods = <<>>
  THEN CompileError("No functions found in this tool", "")
  ELSE impl_traits([i \in 1..Len(methods) |-> extract_function_defintion(methods[i]).value])

\* The build of the expansion.  The statements that make_return_statement
\* writes for a function read as a Result (the match on Ok and Err, map,
\* map_err, the value returned as the inner Result) have a type only when
\* the function does return a Result; otherwise the build fails.
compile(input) ==
  LET methods == SelectSeq(input, LAMBDA item : item.kind = "fn" /\ item.tool_part)
      mismatched == {i \in 1..Len(methods) :
                      /\ methods[i].output.segments = 1
                      /\ Len(methods[i].output.args) >= 2
                      /\ methods[i].output.ident # "Result"}
  IN
  IF tool(input).tag = "Ok" /\ mismatched # {}
  THEN CompileError("mismatched types",
                    methods[CHOOSE i \in mismatched : \A j \in mismatched : i <= j].name)
  ELSE tool(input)

\* The return types of the methods: plain types, Result with two Ok types
\* and two error types, a map type with two type arguments, a Result
\* written with its full path, and no return type.
Outputs ==
  {NoReturnType,
   Named("String"),
   Named("u32"),
   TypePath(1, "Result", <<Named("String"), Named("E1")>>),
   TypePath(1, "Result", <<Named("u32"), Named("E1")>>),
   TypePath(1, "Result", <<Named("String"), Named("E2")>>),
   TypePath(1, "HashMap", <<Named("String"), Named("u32")>>),
   TypePath(3, "Result", <<Named("String"), Named("E1")>>)}

\* The names of the items of a block, by position: the items of one impl
\* block have distinct names.
ItemNames == <<"greet", "goodbye", "talk">>

\* The items of an impl block, their names apart: an associated constant,
\* or a method with or without #[tool_part], with or without descriptions.
Items ==
  {[kind |-> "const", tool_part |-> FALSE, described |-> FALSE, output |-> NoReturnType]}
  \cup {[kind |-> "fn", tool_part |-> t, described |-> d, output |-> o] :
          t \in BOOLEAN, d \in BOOLEAN, o \in Outputs}

\* The impl block of the given items, named by position.
ItemImpl(items) ==
  [i \in 1..Len(items) |->
     [kind |-> items[i].kind, name |-> ItemNames[i], tool_part |-> items[i].tool_part,
      described |-> items[i].described, output |-> items[i].output]]

\* The expansion of #[tool] on an impl block of up to MaxItems items and
\* its build; it happens before any operation of the program.
ExpandTool ==
  /\ last.op = "new"
  /\ \E n \in 0..MaxItems : \E items \in [1..n -> Items] :
       LET input == ItemImpl(items) IN
       last' = [op |-> "tool", arg |-> [input |-> input], ret |-> compile(input),
                invoked |-> <<>>, ran |-> <<>>,
                pre_tools |-> all_tools, pre_schema |-> schema,
                pre_validators |-> tool_name_to_validator]
  /\ UNCHANGED <<impl, all_tools, schema, tool_name_to_validator, calls>>

\* Tool::call_function of a tool, called directly.  The tools called are
\* those of ToolIds; the blocks expanded by ExpandTool are not run.
ToolCallFunction ==
  /\ last.op \in {"new", "call_function"}
  /\ \E t \in ToolIds, name \in FunctionCallNames, ps \in ParameterMaps :
       LET r == call_function(t, name, ps) IN
       last' = [op |-> "call_function",
                arg |-> [tool |-> t, name |-> name, parameters |-> ps],
                ret |-> r.ret, invoked |-> <<>>, ran |-> r.ran,
                pre_tools |-> all_tools, pre_schema |-> schema,
                pre_validators |-> tool_name_to_validator]
  /\ UNCHANGED <<impl, all_tools, schema, tool_name_to_validator, calls>>

InitMacro == Init /\ impl = "toolbox.rs"

NextMacro == ExpandTool \/ ToolCallFunction

SpecMacro == InitMacro /\ [][NextMacro]_vars

(***************************************************************************)
(* src/src/lib.rs: a function call parsed by a ToolBox and called later    *)
(***************************************************************************)
\* The tools a caller may register: those of ToolIds and Ghost.
RegisteredToolIds == ToolIds \cup {"Ghost"}

\* The envelopes parsed: the names of functions with and without
\* parameters, the two names of Ghost, and a name of no tool.
HeldInputs ==
  {JObj(MapOf({<<"name", JStr(n)>>, <<"parameters", JObj(ps)>>})) :
     n \in {"goodbye", "count", "haunt", "spook", "bye"},
     ps \in {EmptyMap, MapOf({<<"n", JNum(1)>>})}}

\* ToolBox::add_tool of src/src/lib.rs, of any tool.
RegisterTool ==
  /\ \E t \in RegisteredToolIds :
       LET r == lib_add_tool(all_tools, schema, tool_name_to_validator, t) IN
       /\ Len(r.all_tools) <= MaxTools
       /\ all_tools' = r.all_tools
       /\ schema' = r.schema
       /\ tool_name_to_validator' = r.tool_name_to_validator
       /\ last' = [op |-> "add_tool", arg |-> [tool |-> t], ret |-> r.ret,
                   invoked |-> <<>>, ran |-> <<>>,
                   pre_tools |-> all_tools, pre_schema |-> schema,
                   pre_validators |-> tool_name_to_validator]
  /\ UNCHANGED <<impl, calls>>

\* ToolBox::parse_value_tool_call: the caller keeps the FunctionCall that
\* it returns.
HoldFunctionCall ==
  /\ \E input \in HeldInputs :
       \E ret \in parse_value_tool_call(tool_name_to_validator, input) :
         /\ last' = [op |-> "parse_value", arg |-> input, ret |-> ret,
                     invoked |-> <<>>, ran |-> <<>>,
                     pre_tools |-> all_tools, pre_schema |-> schema,
                     pre_validators |-> tool_name_to_validator]
         /\ calls' = IF ret.tag = "Ok"
                     THEN [calls EXCEPT ![1] = [pc |-> "held", function_call |-> ret.value,
                                                pre_tools |-> all_tools]]
                     ELSE calls
  /\ UNCHANGED <<impl, all_tools, schema, tool_name_to_validator>>

\* ToolBox::call of the FunctionCall that the caller keeps, on the ToolBox
\* that parsed it.
CallHeld ==
  /\ calls[1].pc = "held"
  /\ LET r == call(all_tools, calls[1].function_call) IN
     last' = [op |-> "call", arg |-> calls[1].function_call, ret |-> r.ret,
              invoked |-> r.invoked, ran |-> r.ran,
              pre_tools |-> all_tools, pre_schema |-> schema,
              pre_validators |-> tool_name_to_validator]
  /\ UNCHANGED <<impl, all_tools, schema, tool_name_to_validator, calls>>

InitHeld == Init /\ impl = "lib.rs"

NextHeld == RegisterTool \/ HoldFunctionCall \/ CallHeld

SpecHeld == InitHeld /\ [][NextHeld]_vars

(***************************************************************************)
(* Properties                                                              *)
(***************************************************************************)
\* The function names a list of tools provides.
provided(tools) == UNION {Range(function_names(tools[i])) : i \in 1..Len(tools)}

\* The index of the last tool, in registration order, that provides the
\* name; 0 when there is none (the scan in the opposite order).
last_match(tools, name) ==
  LET hits == {i \in 1..Len(tools) : name \in Range(function_names(tools[i]))} IN
  IF hits = {} THEN 0 ELSE CHOOSE i \in hits : \A j \in hits : i >= j

\* The last operation was an add_tool of a tool that shares a function name
\* with a tool registered before the call.
AddCollided ==
  /\ last.op = "add_tool"
  /\ Range(function_names(last.arg.tool)) \cap provided(last.pre_tools) # {}

\* The last operation was an add_tool of a tool that shares no function
\* name with the tools registered before the call.
AddDisjoint ==
  /\ last.op = "add_tool"
  /\ Range(function_names(last.arg.tool)) \cap provided(last.pre_tools) = {}

\* C1: after any sequence of add_tool calls the function-name sets of every
\* two distinct registered tools are disjoint, so at most one registered tool
\* provides a name and the scan finds the same tool in either order.
C1_NamesDisjoint ==
  /\ \A i, j \in 1..Len(all_tools) :
       i # j => Range(function_names(all_tools[i]))
                  \cap Range(function_names(all_tools[j])) = {}
  /\ \A n \in FunctionNames \cup {"bye"} :
       /\ Cardinality({i \in 1..Len(all_tools) :
                         n \in Range(function_names(all_tools[i]))}) <= 1
       /\ first_match(all_tools, n) = last_match(all_tools, n)

\* Two tools are registered and a colliding tool has just been rejected.
C1_Witness ==
  /\ Len(all_tools) = 2
  /\ last.op = "add_tool"
  /\ last.ret.tag = "Err"

\* C2: add_tool of a tool that provides a function name a registered tool
\* already provides returns Err with that tool and leaves the tool list, the
\* schema and the validators as they were, also when only some of its names
\* collide.
C2_RejectionIsAtomic ==
  AddCollided =>
    /\ last.ret = ErrTool(last.arg.tool)
    /\ all_tools = last.pre_tools
    /\ schema = last.pre_schema
    /\ tool_name_to_validator = last.pre_validators

\* A tool was rejected of which one name collides and another does not.
C2_Witness ==
  /\ AddCollided
  /\ Range(function_names(last.arg.tool)) \ provided(last.pre_tools) # {}
  /\ last.pre_tools # <<>>
  /\ last.ret.tag = "Err"

\* C3: registering a tool whose function names are disjoint from those of
\* the registered tools succeeds, and the key set of the merged schema is the
\* union of the key sets of the schemas of the registered tools.
C3_DisjointMerge ==
  /\ AddDisjoint =>
       /\ last.ret = Ok
       /\ all_tools = Append(last.pre_tools, last.arg.tool)
       /\ DOMAIN schema = DOMAIN last.pre_schema \cup DOMAIN tool_schema(last.arg.tool)
  /\ DOMAIN schema = UNION {DOMAIN tool_schema(all_tools[i]) : i \in 1..Len(all_tools)}

\* Two tools with disjoint names and different schema keys are registered.
C3_Witness ==
  /\ AddDisjoint
  /\ Len(all_tools) = 2
  /\ DOMAIN tool_schema(all_tools[1]) # DOMAIN tool_schema(all_tools[2])
  /\ last.ret = Ok

\* The schema document describes the function: it has an entry for it under
\* "oneOf", or an entry keyed by its name.
describes(sch, f) ==
  \/ f \in DOMAIN sch
  \/ /\ "oneOf" \in DOMAIN sch
     /\ \E i \in 1..Len(sch["oneOf"]) : sch["oneOf"][i].function_name = f

\* C4: the schema describes every function of every registered tool, and a
\* successful registration leaves every entry merged before it as it was.
C4_SchemaAppendOnly ==
  /\ \A i \in 1..Len(all_tools) :
       \A f \in Range(function_names(all_tools[i])) : describes(schema, f)
  /\ (last.op = "add_tool" /\ last.ret = Ok) =>
       \A k \in DOMAIN last.pre_schema :
         k \in DOMAIN schema /\ schema[k] = last.pre_schema[k]

(***************************************************************************)
(* Properties of the calls.  A call leaves the registry as it is, so in    *)
(* the state after a call all_tools is the registry the call ran against.  *)
(***************************************************************************)
IsCall == last.op = "call_from_value"

\* The key of the name field: "function_name" in src/src/toolbox.rs,
\* "name" in src/src/lib.rs.
NameKey == IF impl = "toolbox.rs" THEN "function_name" ELSE "name"

NameField == get(last.arg, NameKey)
HasStringName == \E v \in NameField : v.kind = "string"
TheName == (CHOOSE v \in NameField : TRUE).s
ParametersField == get(last.arg, "parameters")
HasObjectParameters == \E v \in ParametersField : v.kind = "object"
TheParameters == (CHOOSE v \in ParametersField : TRUE).map
Registered(n) == n \in provided(all_tools)
Owner(n) == CHOOSE t \in Range(all_tools) : n \in Range(function_names(t))

\* The four envelope errors and the name-resolution error, in either
\* implementation.
IsMissingName(ret) ==
  IF impl = "toolbox.rs"
  THEN ret = Err(Parsing("The tool call is missing the function_name field in:", last.arg))
  ELSE ret = Err(MissingName(last.arg))

IsNameNotAString(ret) ==
  IF impl = "toolbox.rs"
  THEN ret = Err(Parsing("The tool call function_name field is not a string in:", last.arg))
  ELSE ret = Err(NameNotAString(last.arg))

IsMissingParameters(ret) ==
  IF impl = "toolbox.rs"
  THEN ret = Err(Parsing("The tool call is missing the parameters field in:", last.arg))
  ELSE ret = Err(MissingParameters(last.arg))

IsParametersNotAnObject(ret) ==
  IF impl = "toolbox.rs"
  THEN ret = Err(Parsing("The tool call parameters field is not an object in:", last.arg))
  ELSE ret = Err(ParametersNotAObject(last.arg))

IsFunctionNotFound(ret, n) ==
  IF impl = "toolbox.rs"
  THEN ret = Err(FunctionNotFound(n))
  ELSE ret = Err(ToolDoesNotExist(last.arg, n))

\* The parameters object satisfies the parameter schema of the function:
\* every declared parameter is present and has the JSON type declared.
SchemaAccepts(f, parameters) ==
  \A i \in 1..Len(parameters_of(f)) :
    LET p == parameters_of(f)[i] IN
    /\ p.name \in DOMAIN parameters
    /\ IF p.param_type = "u8"
       THEN parameters[p.name].kind = "number"
       ELSE parameters[p.name].kind = "string"

\* Every declared parameter deserializes to its Rust type.
Deserializes(f, parameters) ==
  \A i \in 1..Len(parameters_of(f)) :
    LET p == parameters_of(f)[i] IN
    /\ p.name \in DOMAIN parameters
    /\ IF p.param_type = "u8"
       THEN /\ parameters[p.name].kind = "number"
            /\ parameters[p.name].n \in 0..U8Max
       ELSE parameters[p.name].kind = "string"

\* The arguments the function receives.
ArgsOf(f, parameters) ==
  [i \in 1..Len(parameters_of(f)) |->
     LET v == parameters[parameters_of(f)[i].name]
     IN IF v.kind = "number" THEN v.n ELSE v.s]

\* C5 as stated: for any input whose name field does not match a registered
\* function, call_from_value returns FunctionNotFound with that name and
\* invokes no tool.
C5_Original ==
  (IsCall /\ HasStringName /\ ~Registered(TheName)) =>
    /\ IsFunctionNotFound(last.ret, TheName)
    /\ last.invoked = <<>>

\* C5, amended: for any input whose name field is a string that matches no
\* registered function and whose parameters field is an object,
\* call_from_value returns FunctionNotFound with that name and invokes no tool.
C5_UnknownName ==
  (IsCall /\ HasStringName /\ ~Registered(TheName) /\ HasObjectParameters) =>
    /\ IsFunctionNotFound(last.ret, TheName)
    /\ last.invoked = <<>>
    /\ last.ran = <<>>

\* A call with an unregistered name and an object of parameters, against a
\* registry with tools.
C5_Witness ==
  /\ IsCall /\ HasStringName /\ ~Registered(TheName) /\ HasObjectParameters
  /\ all_tools # <<>>
  /\ last.ret.tag = "Err"

\* C6 as stated: an input with a registered name and parameters that
\* satisfy the function's schema reaches the owning tool, runs the function
\* and returns its result, never a dispatch-layer error.
C6_Original ==
  (IsCall /\ impl = "toolbox.rs" /\ HasStringName /\ Registered(TheName)
     /\ HasObjectParameters /\ SchemaAccepts(TheName, TheParameters)) =>
    /\ Len(last.invoked) = 1
    /\ last.invoked[1].tool = Owner(TheName)
    /\ last.ret.tag = "Ok"
    /\ Len(last.ran) = 1

\* C6, amended: an input with a registered name and parameters that satisfy
\* the function's schema and deserialize to the function's parameter types
\* reaches the owning tool's invocation, once, with the call's name and
\* parameters; in src/src/toolbox.rs the function runs once and the call
\* returns Ok with the function's own result.
C6_ValidCallDispatches ==
  (IsCall /\ HasStringName /\ Registered(TheName) /\ HasObjectParameters
     /\ SchemaAccepts(TheName, TheParameters) /\ Deserializes(TheName, TheParameters)) =>
    /\ Len(last.invoked) = 1
    /\ last.invoked[1].tool = Owner(TheName)
    /\ last.invoked[1].name = TheName
    /\ last.invoked[1].parameters = TheParameters
    /\ impl = "toolbox.rs" =>
         /\ last.ret = [tag |-> "Ok",
                        inner |-> function_body(Owner(TheName), TheName,
                                                ArgsOf(TheName, TheParameters))]
         /\ last.ran = <<[tool |-> Owner(TheName), function |-> TheName,
                          args |-> ArgsOf(TheName, TheParameters)]>>

\* greet was called with a greeting through the scan-based ToolBox.
C6_Witness ==
  /\ IsCall /\ impl = "toolbox.rs" /\ HasStringName /\ HasObjectParameters
  /\ TheName = "greet" /\ Registered("greet")
  /\ Deserializes("greet", TheParameters)
  /\ last.ret.tag = "Ok"

C8_EnvelopeOrder ==
  (IsCall /\ impl = "toolbox.rs") =>
    /\ NameField = {} => IsMissingName(last.ret)
    /\ (NameField # {} /\ ~HasStringName) => IsNameNotAString(last.ret)
    /\ (HasStringName /\ ParametersField = {}) => IsMissingParameters(last.ret)
    /\ (HasStringName /\ ParametersField # {} /\ ~HasObjectParameters) =>
         IsParametersNotAnObject(last.ret)
    /\ (~HasStringName \/ ~HasObjectParameters) =>
         /\ last.ret.tag = "Err"
         /\ last.ret.error.issue.input = last.arg
         /\ last.invoked = <<>>
         /\ last.ran = <<>>

\* An envelope with two faults, a name that is not a string and no
\* parameters field, was given to a registry with tools.
C8_Witness ==
  /\ IsCall /\ impl = "toolbox.rs"
  /\ NameField # {} /\ ~HasStringName
  /\ ParametersField = {}
  /\ all_tools # <<>>

\* C9: name resolution comes after the checks of the parameters field: an
\* unregistered name with a missing or non-object parameters field gives the
\* parameters error, and with an object parameters field FunctionNotFound.
C9_ResolutionAfterParameters ==
  (IsCall /\ HasStringName /\ ~Registered(TheName)) =>
    /\ ParametersField = {} => IsMissingParameters(last.ret)
    /\ (ParametersField # {} /\ ~HasObjectParameters) => IsParametersNotAnObject(last.ret)
    /\ HasObjectParameters => IsFunctionNotFound(last.ret, TheName)

\* C10 as stated: a top-level value that is not an object is rejected with
\* an error other than the missing-name error.
C10_Original ==
  (IsCall /\ last.arg.kind # "object") =>
    /\ last.ret.tag = "Err"
    /\ ~IsMissingName(last.ret)

\* C10, amended: a top-level value that is not an object is rejected with
\* the missing-name error, the error of an object without the name field,
\* carrying the input; no tool is invoked.
C10_NonObjectIsMissingName ==
  (IsCall /\ last.arg.kind # "object") =>
    /\ IsMissingName(last.ret)
    /\ last.invoked = <<>>
    /\ last.ran = <<>>

\* An array was given to a registry with tools.
C10_Witness ==
  /\ IsCall /\ last.arg.kind = "array"
  /\ all_tools # <<>>
  /\ last.ret.tag = "Err"

(***************************************************************************)
(* Properties of call_from_str and of the layering of the entry points     *)
(***************************************************************************)
IsCallFromStr == last.op = "call_from_str"

\* The error of a text that is not JSON: the Parsing error with the fixed
\* message (toolbox.rs), ConversionError (lib.rs).
IsInvalidJson(ret) ==
  /\ ret.tag = "Err"
  /\ IF impl = "toolbox.rs"
     THEN ret.error.kind = "Parsing"
          /\ ret.error.issue = [text |-> "The tool call is not valid json"]
     ELSE ret.error.kind = "ConversionError"

\* The value a JSON text was written from.
Denoted(text) == CHOOSE v \in TextValues : to_string(v) = text

\* The outcomes of call_from_value of the constructed ToolBox.
CallFromValueOutcomes(tools, validators, input) ==
  IF impl = "toolbox.rs" THEN {call_from_value(tools, input)}
  ELSE lib_call_from_value(tools, validators, input)

\* C11: call_from_str of a text that is not JSON returns the invalid-JSON
\* error and invokes no tool and runs no function, whatever is registered;
\* of a JSON text it does not return that error, and its outcome is one
\* call_from_value has for the value of the text.
C11_InvalidJson ==
  IsCallFromStr =>
    /\ last.arg.text \in NonJsonTexts =>
         IsInvalidJson(last.ret) /\ last.invoked = <<>> /\ last.ran = <<>>
    /\ last.arg.text \in JsonTexts =>
         /\ ~IsInvalidJson(last.ret)
         /\ \E r \in CallFromValueOutcomes(last.pre_tools, last.pre_validators,
                                           Denoted(last.arg.text)) :
              r.ret = last.ret /\ r.invoked = last.invoked /\ r.ran = last.ran

\* A text that is a whole call to a registered function followed by one
\* more token is rejected as invalid JSON.
C11_Witness ==
  /\ IsCallFromStr
  /\ last.arg.text \in NonJsonTexts
  /\ Len(last.arg.text) > 9
  /\ last.arg.text[4].s = "goodbye"
  /\ "MyTool" \in Range(all_tools)
  /\ IsInvalidJson(last.ret)
  /\ last.invoked = <<>>

(***************************************************************************)
(* Frame of the parse and call operations                                  *)
(***************************************************************************)
CallOps == {"call", "call_from_value", "call_from_str", "parse_value", "parse_str"}

\* The operation did not succeed: a parse or dispatch error, a panic, or
\* the error of the function.
Failed(ret) ==
  \/ ret.tag \in {"Err", "panic"}
  \/ ret.tag = "Ok" /\ "inner" \in DOMAIN ret /\ ret.inner.tag = "Err"

\* C12: a step of any parse or call operation, whatever it returns, leaves
\* the tool list, the schema and the validators as they were; and when it
\* repeats the operation and the input of a step that failed, it returns
\* the same failure.
C12_CallsLeaveRegistry ==
  [][last'.op \in CallOps =>
       /\ all_tools' = all_tools
       /\ schema' = schema
       /\ tool_name_to_validator' = tool_name_to_validator
       /\ (last.op = last'.op /\ last.arg = last'.arg /\ Failed(last.ret))
            => last'.ret = last.ret]_vars

\* A call has failed on a ToolBox of two tools, which it left as it was.
C12_Witness ==
  /\ last.op \in CallOps
  /\ Failed(last.ret)
  /\ Len(all_tools) = 2
  /\ all_tools = last.pre_tools
  /\ schema = last.pre_schema
  /\ schema # EmptyMap

(***************************************************************************)
(* Errors of the function and of the tool's call_function                  *)
(***************************************************************************)
\* A dispatching operation of src/src/toolbox.rs.
IsDispatch ==
  impl = "toolbox.rs" /\ last.op \in {"call", "call_from_value", "call_from_str"}

\* What the function that ran returned.
Returned == function_body(last.ran[1].tool, last.ran[1].function, last.ran[1].args)

\* C13: when the function that a dispatch ran returned a failure, the
\* dispatch returns Ok(Err(e)) with e the error of the function, and the
\* function ran once.
C13_FunctionErrorPassedThrough ==
  (IsDispatch /\ last.ran # <<>> /\ Returned.tag = "Err") =>
    /\ last.ret = OkErr(Returned.error)
    /\ Len(last.ran) = 1
    /\ Len(last.invoked) = 1

\* count ran on 0 and failed.
C13_Witness ==
  /\ IsDispatch
  /\ last.ran = <<[tool |-> "Counter", function |-> "count", args |-> <<0>>]>>
  /\ last.ret = OkErr([type |-> "io::Error", v |-> "zero"])

\* The first declared parameter of the function, in declaration order, that
\* is absent from the parameters or does not deserialize to its type.
FirstBad(f, parameters) ==
  LET ps == parameters_of(f)
      bad(i) == \/ ps[i].name \notin DOMAIN parameters
                \/ IF ps[i].param_type = "u8"
                   THEN ~(parameters[ps[i].name].kind = "number"
                          /\ parameters[ps[i].name].n \in 0..U8Max)
                   ELSE parameters[ps[i].name].kind # "string"
  IN ps[CHOOSE i \in 1..Len(ps) : bad(i) /\ \A j \in 1..(i - 1) : ~bad(j)]

\* C14: when a dispatch invokes a tool for one of its functions, the
\* function runs only on arguments deserialized from every declared
\* parameter; when a declared parameter is absent or does not deserialize,
\* the result is the parsing error of that parameter (the missing-parameter
\* message or the does-not-follow-schema message), which is neither
\* FunctionNotFound nor an envelope error, and the function does not run.
C14_ParametersBeforeFunction ==
  (IsDispatch /\ last.invoked # <<>>) =>
    LET f == last.invoked[1].name
        parameters == last.invoked[1].parameters
    IN
    /\ Deserializes(f, parameters) =>
         last.ran = <<[tool |-> last.invoked[1].tool, function |-> f,
                       args |-> ArgsOf(f, parameters)]>>
    /\ ~Deserializes(f, parameters) =>
         /\ last.ran = <<>>
         /\ last.ret.tag = "Err"
         /\ last.ret.error.kind = "Parsing"
         /\ last.ret.error.issue =
              [text |-> IF FirstBad(f, parameters).name \in DOMAIN parameters
                        THEN "Parameter does not follow schema"
                        ELSE "Missing parameter",
               parameter |-> FirstBad(f, parameters).name]

\* count was invoked with n = 300, which is no u8, and did not run.
C14_Witness ==
  /\ IsDispatch
  /\ last.invoked # <<>>
  /\ last.invoked[1].name = "count"
  /\ last.invoked[1].parameters = MapOf({<<"n", JNum(300)>>})
  /\ last.ran = <<>>
  /\ last.ret = Err(parsing("Parameter does not follow schema", "n"))

(***************************************************************************)
(* FunctionCall values                                                     *)
(***************************************************************************)
\* The operation handed the caller a FunctionCall / FunctionCallArgs value.
ObtainedFunctionCall ==
  last.op \in {"parse_value", "parse_str", "default"} /\ last.ret.tag = "Ok"

\* The name of the value obtained.
ObtainedName ==
  IF impl = "toolbox.rs" THEN last.ret.value.function_name ELSE last.ret.value.name

\* C15: a FunctionCall value the caller obtains is the result of a parse
\* method of the ToolBox, and its name is one a tool of the ToolBox
\* provides.
C15_OnlyParseProducesFunctionCalls ==
  ObtainedFunctionCall =>
    /\ last.op \in {"parse_value", "parse_str"}
    /\ ObtainedName \in provided(all_tools)

\* The name of the FunctionCall / FunctionCallArgs presented to call.
CalledName == IF impl = "toolbox.rs" THEN last.arg.function_name ELSE last.arg.name

\* C16: call of a FunctionCall whose name no tool of the ToolBox provides
\* returns an error of the FunctionNotFound class, and invokes no tool.
C16_UnknownFunctionCallIsAnError ==
  (last.op = "call" /\ CalledName \notin provided(last.pre_tools)) =>
    /\ last.ret.tag = "Err"
    /\ last.ret.error.kind \in {"FunctionNotFound", "ToolDoesNotExist"}
    /\ last.invoked = <<>>
    /\ last.ran = <<>>

(***************************************************************************)
(* Lifecycle of the registry                                               *)
(***************************************************************************)
\* The tool a function name resolves to: the first, in registration order,
\* that provides it.
ResolvesTo(tools, n) ==
  tools[CHOOSE i \in 1..Len(tools) :
          /\ n \in Range(function_names(tools[i]))
          /\ \A j \in 1..(i - 1) : n \notin Range(function_names(tools[j]))]

\* C17: a ToolBox starts with no tools and the empty schema; no step makes
\* the tool list shorter; a step that changes the tool list is an add_tool
\* that returned Ok and appended its tool; and a function name that resolves
\* to a tool resolves to the same tool after every step.
C17_OnlyGrows ==
  /\ all_tools = <<>> /\ schema = EmptyMap
  /\ [][/\ Len(all_tools') >= Len(all_tools)
        /\ all_tools' # all_tools =>
             /\ last'.op = "add_tool"
             /\ last'.ret = Ok
             /\ all_tools' = Append(all_tools, last'.arg.tool)
        /\ \A n \in provided(all_tools) :
             /\ n \in provided(all_tools')
             /\ ResolvesTo(all_tools', n) = ResolvesTo(all_tools, n)]_vars

\* After a second registration a call was forwarded to the tool registered
\* first.
C17_Witness ==
  /\ Len(all_tools) = 2
  /\ last.op \in {"call", "call_from_value", "call_from_str"}
  /\ last.invoked # <<>>
  /\ last.invoked[1].index = 1
  /\ last.invoked[1].tool = all_tools[1]

(***************************************************************************)
(* The entry points as layers                                              *)
(***************************************************************************)
\* The outcomes of the parse method of the constructed ToolBox on a value.
ParseOutcomes(validators, input) ==
  IF impl = "toolbox.rs" THEN {into_function_call_from_value(input)}
  ELSE parse_value_tool_call(validators, input)

\* The outcome of call (call_from_args in toolbox.rs) on a parsed value.
CallOutcome(tools, function_call) ==
  IF impl = "toolbox.rs" THEN call_from_args(tools, function_call)
  ELSE call(tools, function_call)

\* The result of call in the result type of call_from_value: the same in
\* toolbox.rs; in lib.rs the error E of the function becomes the variant
\* Tool(E) of ValueToolCallError<E>.
InResultOfCallFromValue(ret) ==
  IF impl = "lib.rs" /\ ret.tag = "Err" THEN Err(ToolError(ret.error)) ELSE ret

\* C18: call_from_str of a JSON text has an outcome of call_from_value of
\* the value of the text; call_from_value of a value returns the error of
\* the parse method when the parse fails, and otherwise what call returns
\* for the parsed FunctionCall, invoking and running the same.
C18_EntryPointsAreLayers ==
  /\ (IsCallFromStr /\ last.arg.text \in JsonTexts) =>
       \E r \in CallFromValueOutcomes(last.pre_tools, last.pre_validators,
                                      Denoted(last.arg.text)) :
         r.ret = last.ret /\ r.invoked = last.invoked /\ r.ran = last.ran
  /\ IsCall =>
       \E parsed \in ParseOutcomes(last.pre_validators, last.arg) :
         IF parsed.tag # "Ok"
         THEN last.ret = parsed /\ last.invoked = <<>> /\ last.ran = <<>>
         ELSE LET r == CallOutcome(last.pre_tools, parsed.value) IN
              /\ last.ret = InResultOfCallFromValue(r.ret)
              /\ last.invoked = r.invoked
              /\ last.ran = r.ran

\* A JSON text went through the three layers to a function that ran.
C18_Witness ==
  /\ IsCallFromStr
  /\ last.arg.text \in JsonTexts
  /\ last.ran # <<>>
  /\ last.ret.tag = "Ok"

(***************************************************************************)
(* Round trip of the envelope                                              *)
(***************************************************************************)
\* The FunctionCall value of the constructed ToolBox.
TheFunctionCall(n, ps) ==
  IF impl = "toolbox.rs" THEN FunctionCallArgs(n, ps) ELSE FunctionCall(n, ps)

\* C19: the parse method, given an object whose name field is the string n
\* and whose parameters field is the object ps, accepted by the parser (in
\* lib.rs: n has a validator, which accepts ps), returns the FunctionCall
\* of n and ps, whatever other fields the object has.
C19_EnvelopeRoundTrip ==
  (/\ last.op = "parse_value"
   /\ last.arg.kind = "object"
   /\ {NameKey, "parameters"} \subseteq DOMAIN last.arg.map
   /\ last.arg.map[NameKey].kind = "string"
   /\ last.arg.map["parameters"].kind = "object"
   /\ impl = "lib.rs" =>
        /\ last.arg.map[NameKey].s \in provided(last.pre_tools)
        /\ SchemaAccepts(last.arg.map[NameKey].s, last.arg.map["parameters"].map)) =>
    last.ret = OkValue(TheFunctionCall(last.arg.map[NameKey].s,
                                       last.arg.map["parameters"].map))

\* An envelope with a third field was parsed to its name and parameters.
C19_Witness ==
  /\ last.op = "parse_value"
  /\ last.arg.kind = "object"
  /\ DOMAIN last.arg.map = {NameKey, "parameters", "id"}
  /\ last.ret = OkValue(TheFunctionCall("greet", MapOf({<<"greeting", JStr("hi")>>})))

(***************************************************************************)
(* Concurrent dispatch                                                     *)
(***************************************************************************)
\* The two results of a dispatch are the same: the same dispatch error, or
\* the same error of the function, or the same value of the same type.
SameResult(a, b) ==
  /\ a.tag = b.tag
  /\ IF a.tag # "Ok" THEN a = b
     ELSE /\ a.inner.tag = b.inner.tag
          /\ IF a.inner.tag # "Ok" THEN a.inner = b.inner
             ELSE /\ a.inner.value.type = b.inner.value.type
                  /\ a.inner.value.v = b.inner.value.v

\* C20: under any interleaving of the calls in flight on one ToolBox, the
\* tool list and the schema are what they were when each call in flight
\* started, and every call that has returned has the result, computed on the
\* ToolBox it started on, that call_from_args gives it alone.
C20_ConcurrentDispatch ==
  \A c \in 1..MaxCalls :
    /\ calls[c].pc = "suspended" =>
         all_tools = calls[c].pre_tools /\ schema = calls[c].pre_schema
    /\ calls[c].pc = "done" =>
         SameResult(calls[c].ret, call_from_args(calls[c].pre_tools, calls[c].arg).ret)

\* Two calls to different functions of different tools were in flight
\* together, the first is still suspended, and the second has returned its
\* own result.
C20_Witness ==
  /\ calls[1].pc = "suspended"
  /\ calls[1].function = "greet"
  /\ calls[2].pc = "done"
  /\ calls[2].arg = FunctionCallArgs("count", MapOf({<<"n", JNum(0)>>}))
  /\ calls[2].ret = OkErr([type |-> "io::Error", v |-> "zero"])

(***************************************************************************)
(* Registration order                                                      *)
(***************************************************************************)
\* C21: the tool list is the sequence of the tools added with success, in
\* the order they were added: an add_tool that returned Ok left the list it
\* found with its tool appended at the end, and an add_tool that returned
\* the tool left the list as it found it.
C21_RegistrationOrder ==
  last.op = "add_tool" =>
    IF last.ret = Ok
    THEN /\ Len(all_tools) = Len(last.pre_tools) + 1
         /\ all_tools[Len(all_tools)] = last.arg.tool
         /\ \A i \in 1..Len(last.pre_tools) : all_tools[i] = last.pre_tools[i]
    ELSE all_tools = last.pre_tools

\* A second tool was added behind the first.
C21_Witness ==
  /\ last.op = "add_tool"
  /\ last.ret = Ok
  /\ Len(last.pre_tools) = 1
  /\ all_tools = <<last.pre_tools[1], last.arg.tool>>
  /\ last.pre_tools[1] # last.arg.tool

\* The methods of an impl block that carry #[tool_part], in their order.
ToolPartMethods(input) == SelectSeq(input, LAMBDA item : item.kind = "fn" /\ item.tool_part)

\* The return type is a Result<T, E>, however its path is written.
ReturnsResult(output) == output.ident = "Result" /\ Len(output.args) = 2

\* The last operation expanded an impl block into impls of Tool.
IsExpansion == last.op = "tool" /\ last.ret.tag = "Ok"

\* The impls of the given strategy in the last expansion.
Generated(kind) ==
  {i \in 1..Len(last.ret.impls) : last.ret.impls[i].impl_needed.kind = kind}

\* C22 as stated: the impl with a concrete Output and a concrete Error is
\* generated only for a tool whose functions all return a Result, with one
\* success type and one error type.
C22_SpecificOnlyForResults ==
  (IsExpansion /\ Generated("SpecificAndSpecific") # {}) =>
    LET methods == ToolPartMethods(last.arg.input) IN
    \A i, j \in 1..Len(methods) :
      /\ ReturnsResult(methods[i].output)
      /\ methods[i].output.args = methods[j].output.args

\* C22: the impl with a concrete Output and a concrete Error is generated
\* only for a tool each of whose functions returns Result<Output, Error> or
\* returns Output itself, and of which at least one returns
\* Result<Output, Error>.
C22_SpecificAndSpecific ==
  IsExpansion =>
    \A k \in Generated("SpecificAndSpecific") :
      LET methods == ToolPartMethods(last.arg.input)
          generated == last.ret.impls[k].impl_needed
          result(output) == /\ ReturnsResult(output)
                            /\ output.args = <<generated.ok_type, generated.err_type>>
      IN
      /\ \A i \in 1..Len(methods) :
           result(methods[i].output) \/ methods[i].output = generated.ok_type
      /\ \E i \in 1..Len(methods) : result(methods[i].output)

\* A tool of a function that returns String and one that returns
\* Result<String, E1> got the impl of Tool<String, E1>.
C22_Witness ==
  /\ IsExpansion
  /\ Len(ToolPartMethods(last.arg.input)) = 2
  /\ last.arg.input[1].output = Named("String")
  /\ last.arg.input[2].output = TypePath(1, "Result", <<Named("String"), Named("E1")>>)
  /\ \E k \in Generated("SpecificAndSpecific") :
       last.ret.impls[k].impl_needed = SpecificAndSpecific(Named("String"), Named("E1"))

\* C23 as stated: the impls with Error = Infallible are generated exactly
\* for the tools none of whose functions returns a Result: the one with the
\* erased Output for each of them, the one with a concrete Output when the
\* functions share one return type; a tool with a function that returns a
\* Result gets none.
C23_InfallibleIffNoResult ==
  IsExpansion =>
    LET methods == ToolPartMethods(last.arg.input)
        regular == \A i \in 1..Len(methods) : ~ReturnsResult(methods[i].output)
        shared == \A i, j \in 1..Len(methods) : methods[i].output = methods[j].output
    IN
    /\ Generated("BoxAndInfallible") # {} <=> regular
    /\ Generated("SpecificAndInfallible") # {} <=> (regular /\ shared)

\* C24: every expansion has the impl with the erased Output and the erased
\* Error, exactly once.
C24_BoxAndBoxOnce ==
  IsExpansion => Cardinality(Generated("BoxAndBox")) = 1

\* An expansion of four impls, of which one is the erased one.
C24_Witness ==
  /\ IsExpansion
  /\ Len(last.ret.impls) = 4
  /\ Cardinality(Generated("BoxAndBox")) = 1
  /\ last.ret.impls[4].ok_needs_box /\ last.ret.impls[4].err_needs_box

\* The names of the methods of an impl block that carry #[tool_part], in
\* the order of their declaration.
ToolPartNames(input) ==
  [i \in 1..Len(ToolPartMethods(input)) |-> ToolPartMethods(input)[i].name]

\* C26: an impl block without a #[tool_part] method is rejected with an
\* error; the function_names of every impl generated are not empty and are
\* the names of the #[tool_part] methods, each once, as declared.
C26_FunctionNamesAreTheToolParts ==
  last.op = "tool" =>
    /\ ToolPartMethods(last.arg.input) = <<>> => last.ret.tag = "Err"
    /\ last.ret.tag = "Ok" =>
         \A k \in 1..Len(last.ret.impls) :
           /\ last.ret.impls[k].function_names # <<>>
           /\ last.ret.impls[k].function_names = ToolPartNames(last.arg.input)

\* A block of a method without #[tool_part] followed by one with it was
\* expanded: the only function name is the second method's.
C26_Witness ==
  /\ IsExpansion
  /\ Len(last.arg.input) = 2
  /\ last.arg.input[1].kind = "fn" /\ ~last.arg.input[1].tool_part
  /\ last.ret.impls[1].function_names = <<"goodbye">>

\* C30: the assert of determine_impls_needed holds in every expansion: when
\* no function is read as returning a Result there is no common error type,
\* and the expansion does not panic.
C30_AssertHolds ==
  last.op = "tool" =>
    /\ last.ret # Panic
    /\ LET function_definitions ==
             [i \in 1..Len(ToolPartMethods(last.arg.input)) |->
                extract_function_defintion(ToolPartMethods(last.arg.input)[i]).value]
       IN
       (last.ret.tag = "Ok" /\ all_functions_are_regular(function_definitions)) =>
         /\ Cardinality(result_err(function_definitions)) # 1
         /\ Generated("BoxAndSpecific") = {}
         /\ Generated("SpecificAndSpecific") = {}

\* A tool of two regular functions of different return types was expanded:
\* the assert was evaluated and held.
C30_Witness ==
  /\ IsExpansion
  /\ Len(ToolPartMethods(last.arg.input)) = 2
  /\ last.arg.input[1].output = Named("String")
  /\ last.arg.input[2].output = Named("u32")
  /\ Generated("BoxAndInfallible") # {}

\* C27: call_function of a tool with a name that is none of its functions
\* returns the function-not-found error that carries this name, and runs
\* none of the tool's functions.
C27_ForeignNameNotFound ==
  (last.op = "call_function" /\ last.arg.name \notin Range(function_names(last.arg.tool))) =>
    /\ last.ret = Err(FunctionNotFound(last.arg.name))
    /\ last.ran = <<>>

\* A tool was called with the name of a function of another tool, with the
\* parameters that function takes.
C27_Witness ==
  /\ last.op = "call_function"
  /\ last.arg.name \in FunctionNames
  /\ last.arg.name \notin Range(function_names(last.arg.tool))
  /\ \A i \in 1..Len(parameters_of(last.arg.name)) :
       parameters_of(last.arg.name)[i].name \in DOMAIN last.arg.parameters
  /\ last.ret = Err(FunctionNotFound(last.arg.name))

\* The operations that dispatch a call to a tool.
DispatchOps == {"call", "call_from_value", "call_from_str"}

\* C25: a dispatch invokes at most one tool, at most once: the first tool
\* in registration order that has the function, with the name and the
\* parameters of the call; what that tool returns is what the dispatch
\* returns; only that tool runs a function; when no tool has the function
\* none is invoked.
C25_AtMostOneInvocation ==
  last.op \in DispatchOps =>
    /\ Len(last.invoked) <= 1
    /\ Len(last.ran) <= 1
    /\ last.invoked = <<>> => last.ran = <<>>
    /\ (last.op = "call" /\ CalledName \notin provided(last.pre_tools)) => last.invoked = <<>>
    /\ last.invoked # <<>> =>
         LET invoke == last.invoked[1] IN
         /\ invoke.index \in 1..Len(last.pre_tools)
         /\ invoke.tool = last.pre_tools[invoke.index]
         /\ invoke.name \in Range(function_names(invoke.tool))
         /\ \A j \in 1..(invoke.index - 1) :
              invoke.name \notin Range(function_names(last.pre_tools[j]))
         /\ last.op = "call" =>
              invoke.name = CalledName /\ invoke.parameters = last.arg.parameters
         /\ last.op = "call_from_value" =>
              /\ HasStringName /\ invoke.name = TheName
              /\ HasObjectParameters /\ invoke.parameters = TheParameters
         /\ impl = "toolbox.rs" =>
              last.ret = call_function(invoke.tool, invoke.name, invoke.parameters).ret
         /\ \A k \in 1..Len(last.ran) :
              last.ran[k].tool = invoke.tool /\ last.ran[k].function = invoke.name

\* A call was dispatched to the second of two registered tools, which ran
\* the function.
C25_Witness ==
  /\ last.op \in DispatchOps
  /\ Len(last.pre_tools) = 2
  /\ Len(last.invoked) = 1
  /\ last.invoked[1].index = 2
  /\ Len(last.ran) = 1

\* C28: parsing an envelope never panics: for every JSON value and every
\* text, the parse methods of both implementations return a function call
\* or a parse error, and so does into_function_call_from_value when
\* call_from_value and call_from_str of src/src/toolbox.rs call it; the
\* unwraps that follow the checks find the shape that was checked.
C28_ParsingNeverPanics ==
  /\ last.op \in {"parse_value", "parse_str"} =>
       /\ last.ret # Panic
       /\ last.ret.tag \in {"Ok", "Err"}
  /\ (impl = "toolbox.rs" /\ last.op \in {"call_from_value", "call_from_str"}) =>
       last.ret # Panic

\* An envelope with a string name and a parameters field that is not an
\* object was parsed and refused.
C28_Witness ==
  /\ impl = "toolbox.rs"
  /\ last.op = "call_from_value"
  /\ HasStringName
  /\ ParametersField # {}
  /\ ~HasObjectParameters
  /\ last.ret.tag = "Err"

\* The tool has a validator for each of its function names and for no
\* other name.
WellFormed(t) == DOMAIN function_name_to_validator(t) = Range(function_names(t))

\* C29: the names that have a validator in the ToolBox of src/src/lib.rs
\* are the names for which the registered tools declare validators; when
\* each registered tool declares validators for exactly its function names,
\* they are the names that the registered tools provide, the FunctionCall
\* that parse_value_tool_call returned names a function that a registered
\* tool provides, also after tools were added, and call does not reach its
\* panic for it.
C29_ValidatorsAreTheFunctions ==
  /\ DOMAIN tool_name_to_validator =
       UNION {DOMAIN function_name_to_validator(all_tools[i]) : i \in 1..Len(all_tools)}
  /\ (\A i \in 1..Len(all_tools) : WellFormed(all_tools[i])) =>
       /\ DOMAIN tool_name_to_validator = provided(all_tools)
       /\ calls[1].pc = "held" => calls[1].function_call.name \in provided(all_tools)
       /\ last.op = "call" => last.invoked # <<>>

\* A FunctionCall parsed when one tool was registered was called after
\* another tool was added, and a tool ran it.
C29_Witness ==
  /\ \A i \in 1..Len(all_tools) : WellFormed(all_tools[i])
  /\ last.op = "call"
  /\ calls[1].pc = "held"
  /\ last.arg = calls[1].function_call
  /\ Len(calls[1].pre_tools) = 1
  /\ Len(all_tools) = 2
  /\ last.invoked # <<>>
====
